---- MODULE Spec2Model ----
(***************************************************************************)
(* A model of runhouse's Environment Manager (runhouse/resources/envs):    *)
(* Env.install, Env.to and their helpers, acting on one execution target   *)
(* whose node process owns obj_store.installed_envs; and of the Remote     *)
(* Invocation Protocol (runhouse/rns/send.py): the call methods of Send   *)
(* over the RPC channel and the HTTP endpoint; and of the target's         *)
(* registry (put, get, keys, delete, put_resource, status) as the spec and *)
(* the cluster tests describe it, its code being outside these sources.    *)
(*                                                                         *)
(* Python values are encoded as follows.                                   *)
(*   Optional value   <<>> is None, <<v>> is the value v                   *)
(*   list             a sequence                                           *)
(*   dict             an ordered sequence of <<key, value>> pairs (the     *)
(*                    insertion order of a Python dict), or, for the small *)
(*                    compute / env_vars dicts, a set of pairs             *)
(*   object reference a number into a heap (envs, dicts); 0 is None        *)
(***************************************************************************)
EXTENDS Integers, Sequences, FiniteSets, TLC

VARIABLES
    envs,            \* client heap: Env objects by reference
    dicts,           \* client heap: the dict objects the Envs' compute fields point to
    installed_envs,  \* obj_store.installed_envs of the node process: pairs <<hash, name>>
    registry,        \* the target's resources put by put_resource: pairs <<key, node Env>>
    environ,         \* os.environ of the node process, as set by _set_env_vars
    hist,            \* one record per finished call of Spec, oldest first
    thr,             \* SpecConc: the in-flight install() call of each thread
    sends,           \* client heap: Send objects by reference
    token,           \* rh_config.rns_client.token of the client
    ray,             \* whether the client's local ray runtime is initialised
    rpc,             \* what went out over hardware.call_grpc, oldest first
    http,            \* what went out over requests.post, oldest first
    last,            \* SpecSend: the latest finished call of a Send method
    completed,       \* SpecConc: the hashes whose install() ran to its end
    object_store,    \* the target's objects: environment key -> object key -> object
    servlets,        \* the target's environment processes, by environment key
    reglast,         \* SpecReg: the latest registry operation and the store before it
    cwd_files,       \* the client's working directory: pairs <<function module, its source>>
    hw_up,           \* whether the hardware the Sends are built on is up
    built,           \* SpecMake: one record per construction of a Send, oldest first
    shell,           \* SpecCmd: what subprocess.Popen was given, oldest first
    ssh,             \* SpecCmd: what went out over the cluster's ssh channel, oldest first
    cmdlast          \* SpecCmd: the latest call of run_setup_command

envvars == <<envs, dicts, installed_envs, registry, environ, hist, thr, completed>>
sendvars == <<sends, token, ray, rpc, http, last>>
storevars == <<object_store, servlets, reglast>>
makevars == <<cwd_files, hw_up, built>>
cmdvars == <<shell, ssh, cmdlast>>
vars == <<envs, dicts, installed_envs, registry, environ, hist, thr,
          sends, token, ray, rpc, http, last, completed,
          object_store, servlets, reglast, cwd_files, hw_up, built,
          shell, ssh, cmdlast>>

----------------------------------------------------------------------------
(* Bounds of the model. *)

MaxOps == 2          \* calls made by the client in one behaviour of Spec
NumNodes == 2        \* len(system.ips) of the cluster

----------------------------------------------------------------------------
(* Python values. *)

None == <<>>
Some(v) == <<v>>
NoName == "None"                       \* Resource.name of an anonymous Env

(* Requirements.  form: "str" a string shorthand, "pkg" a Package object,  *)
(* "dict" a Package's config, "other" anything else.  folder: the           *)
(* install_target is (or, for a string, resolves to) a Folder.  loc: the   *)
(* system the folder lives on.                                             *)
Req(form, folder, id, loc) == [form |-> form, folder |-> folder, id |-> id, loc |-> loc]
Numpy == Req("str", FALSE, "numpy", "here")
LocalDir == Req("str", TRUE, "./", "here")
MyPkg == Req("pkg", TRUE, "mypkg", "here")
PipPkg == Req("pkg", FALSE, "torch", "here")
Bogus == Req("other", FALSE, "bogus", "here")

(* Python truthiness of an Optional list and of an Optional dict. *)
TruthyList(opt) == opt # None /\ opt[1] # <<>>
TruthyDict(opt) == opt # None /\ opt[1] # {}

(* dict operations on a set of <<key, value>> pairs. *)
Keys(d) == {p[1] : p \in d}
DictSet(d, k, v) == {p \in d : p[1] # k} \cup {<<k, v>>}

DictGet(d, k) == (CHOOSE p \in d : p[1] = k)[2]

(* dict operations on an ordered sequence of <<key, value>> pairs. *)
HasKey(config, k) == \E i \in 1..Len(config) : config[i][1] = k
Lookup(config, k) == config[CHOOSE i \in 1..Len(config) : config[i][1] = k][2]
Pop(config, k) == SelectSeq(config, LAMBDA p : p[1] # k)

(* The contents of the dotenv file an env_vars string names. *)
DotenvFile == {<<"FROM_FILE", "1">>}

(* env_vars is a dict [file |-> FALSE, d |-> pairs] or the path of a dotenv *)
(* file [file |-> TRUE, d |-> {}].                                          *)
EnvVarsDict(d) == [file |-> FALSE, d |-> d]
EnvVarsFile == [file |-> TRUE, d |-> {}]

_env_vars_from_file(env_file) == DotenvFile

_process_env_vars(env_vars) ==
    IF env_vars.file THEN _env_vars_from_file(env_vars) ELSE env_vars.d

----------------------------------------------------------------------------
(* Env: properties and serialisation.  An Env value is a record            *)
(* [name, _reqs, setup_cmds, env_vars, working_dir, secrets, compute].     *)

env_name(self) == IF self.name = NoName THEN "base" ELSE self.name

(* reqs with the working directory put first. *)
reqsWorkingDirFirst(self) ==
    (IF self.working_dir # None THEN <<self.working_dir[1]>> ELSE <<>>) \o self._reqs

reqs(self) ==
    self._reqs \o (IF self.working_dir # None THEN <<self.working_dir[1]>> ELSE <<>>)

(* Resource._resource_string_for_subconfig: a string stays a string,       *)
(* a Package becomes its config.                                           *)
SubConfig(r) == IF r.form = "pkg" THEN [r EXCEPT !.form = "dict"] ELSE r

(* Package.from_config, applied by Env.from_config to the dict entries. *)
PackageFromConfig(r) == IF r.form = "dict" THEN [r EXCEPT !.form = "pkg"] ELSE r

(* Resource.config: the entries every resource has. *)
ResourceConfig(self) ==
    << <<"name", self.name>>, <<"resource_type", "env">>, <<"resource_subtype", "Env">> >>

(* Resource.save_attrs_to_config for the four attributes Env.config names: *)
(* an attribute is stored only when it is truthy.                          *)
SaveAttrsToConfig(config, self) ==
    config
    \o (IF TruthyList(self.setup_cmds) THEN << <<"setup_cmds", self.setup_cmds[1]>> >> ELSE <<>>)
    \o (IF self.env_vars.file \/ self.env_vars.d # {}
        THEN << <<"env_vars", self.env_vars>> >> ELSE <<>>)
    \o << <<"env_name", env_name(self)>> >>
    \o (IF TruthyDict(self.compute) THEN << <<"compute", self.compute[1]>> >> ELSE <<>>)

Config(self) ==
    SaveAttrsToConfig(ResourceConfig(self), self)
    \o << <<"reqs", [i \in 1..Len(self._reqs) |-> SubConfig(self._reqs[i])]>>,
          <<"working_dir", IF self.working_dir = None THEN None
                           ELSE Some(SubConfig(self.working_dir[1]))>> >>

(* Env.from_config followed by Env.__init__ with its defaults. *)
FromConfig(config) ==
    LET rq == Lookup(config, "reqs")
        wd == Lookup(config, "working_dir")
    IN  [name        |-> Lookup(config, "name"),
         _reqs       |-> [i \in 1..Len(rq) |-> PackageFromConfig(rq[i])],
         setup_cmds  |-> IF HasKey(config, "setup_cmds")
                         THEN Some(Lookup(config, "setup_cmds")) ELSE None,
         env_vars    |-> IF HasKey(config, "env_vars")
                         THEN Lookup(config, "env_vars") ELSE EnvVarsDict({}),
         working_dir |-> IF wd = None THEN None ELSE Some(PackageFromConfig(wd[1])),
         secrets     |-> <<>>,
         compute     |-> IF HasKey(config, "compute")
                         THEN Some(Lookup(config, "compute")) ELSE Some({})]

(* hash(str(env_config)): str() lists the entries in insertion order; the  *)
(* hash is taken to be collision free on the configurations of the model.   *)
Hash(env_config) == env_config

InstallHash(self) == Hash(Pop(Config(self), "name"))

----------------------------------------------------------------------------
(* Side effects.  An event is one side effect of a call:                   *)
(*   "upload"  Package.to moved a folder package onto the system           *)
(*   "put"     put_resource registered the Env under the key x             *)
(*   "setenv"  _set_env_vars ran on the target                             *)
(*   "pkg"     the installer of the requirement x was invoked              *)
(*   "cmd"     the setup command x was run                                 *)
(*   "secret"  the secret x was migrated                                   *)
(* ok is FALSE when the installer raised / the command exited nonzero.     *)
Event(t, x, ok) == [t |-> t, x |-> x, ok |-> ok]

(* What a call raised: "none", or the exception.                           *)
NodeIdxError == "ValueError: node index out of bounds"      \* env.py:216
NotRecognized == "ValueError: package not recognized"       \* env.py:152
InstallError == "installer raised"                          \* out of pkg._install

Ok(events) == [events |-> events, raised |-> "none"]
Raised(events, exc) == [events |-> events, raised |-> exc]

(* Package.from_string: the Package a string shorthand resolves to. *)
PackageFromString(r) == [r EXCEPT !.form = "pkg"]

(* Env._install_reqs from its i-th requirement on.  failing is the set of  *)
(* requirement ids whose installer raises and of commands that exit        *)
(* nonzero on this node.                                                   *)
(* _install_reqs with the installer's exception caught until the loop ends. *)
RECURSIVE InstallFromCatch(_, _, _)
InstallFromCatch(rs, i, failing) ==
    IF i > Len(rs) THEN Ok(<<>>)
    ELSE IF rs[i].form \notin {"str", "pkg"}
         THEN Raised(<<>>, NotRecognized)
    ELSE LET rest == InstallFromCatch(rs, i + 1, failing)
         IN  [events |-> <<Event("pkg", rs[i].id, rs[i].id \notin failing)>> \o rest.events,
              raised |-> IF rs[i].id \in failing THEN InstallError ELSE rest.raised]

RECURSIVE InstallFrom(_, _, _)
InstallFrom(rs, i, failing) ==
    IF i > Len(rs) THEN Ok(<<>>)
    ELSE IF rs[i].form \notin {"str", "pkg"}
         THEN Raised(<<>>, NotRecognized)
    ELSE LET pkg == IF rs[i].form = "str" THEN PackageFromString(rs[i]) ELSE rs[i]
         IN  IF pkg.id \in failing
             THEN Raised(<<Event("pkg", pkg.id, FALSE)>>, InstallError)
             ELSE LET rest == InstallFrom(rs, i + 1, failing)
                  IN  [rest EXCEPT !.events = <<Event("pkg", pkg.id, TRUE)>> \o @]

(* Env._install_reqs(cluster=None, reqs=arg): reqs = reqs or self.reqs. *)
_install_reqs(self, arg, failing) ==
    InstallFrom(IF TruthyList(arg) THEN arg[1] ELSE reqs(self), 1, failing)

(* Env._run_cmd is "" for Env, so a command runs unprefixed. *)
_run_cmd(self) == ""

(* Env._run_setup_cmds(cluster=None, setup_cmds=arg): the status that      *)
(* run_setup_command returns is dropped, so a failing command stops        *)
(* nothing.                                                                *)
_run_setup_cmds(self, arg, failing) ==
    LET setup_cmds == IF TruthyList(arg) THEN arg ELSE self.setup_cmds
    IN  IF ~TruthyList(setup_cmds) THEN Ok(<<>>)
        ELSE Ok([i \in 1..Len(setup_cmds[1]) |->
                    Event("cmd", setup_cmds[1][i], setup_cmds[1][i] \notin failing)])

(* The guard of Env.install with the cache lookup lost. *)
AlreadyInstalledNever(installed, install_hash, force) == FALSE

AlreadyInstalledIgnoreForce(installed, install_hash, force) ==
    install_hash \in Keys(installed)

(* The guard of Env.install: the hash is cached and force is off. *)
AlreadyInstalled(installed, install_hash, force) ==
    install_hash \in Keys(installed) /\ ~force

InstallBodyUnmarkOnFailure(self, marked, r, failing) ==
    IF r.raised # "none"
    THEN [installed |-> {p \in marked : p[1] # InstallHash(self)},
          events |-> r.events, raised |-> r.raised]
    ELSE [installed |-> marked,
          events |-> r.events \o _run_setup_cmds(self, None, failing).events,
          raised |-> "none"]

(* env.py:180-183: the hash is recorded, then the requirements are        *)
(* installed and, unless that raised, the setup commands run.              *)
InstallBody(self, marked, r, failing) ==
    IF r.raised # "none"
    THEN [installed |-> marked, events |-> r.events, raised |-> r.raised]
    ELSE [installed |-> marked,
          events |-> r.events \o _run_setup_cmds(self, None, failing).events,
          raised |-> "none"]

(* Env.install(force) in the node process whose cache is `installed`. *)
install(self, force, installed, failing) ==
    IF AlreadyInstalled(installed, InstallHash(self), force)
    THEN [installed |-> installed, events |-> <<>>, raised |-> "none"]
    ELSE InstallBody(self, DictSet(installed, InstallHash(self), self.name),
                     _install_reqs(self, None, failing), failing)

----------------------------------------------------------------------------
(* The client's heap and Env.to.                                           *)

Clients == {1, 2, 3}                   \* the Env objects the client built
NewRef == Cardinality(Clients) + 1     \* where to() allocates its copy
NewDict == Cardinality(Clients) + 2    \* where to() allocates the copy's compute dict
DictRefs == 1..NewDict
DefaultDict == 1                       \* the `compute={}` default of Env.__init__,
                                       \* one dict object shared by every Env built without compute

(* The Env value an object reference denotes: compute dereferenced. *)
Deref(es, ds, r) == [es[r] EXCEPT !.compute = IF @ = 0 THEN None ELSE Some(ds[@])]

(* copy.copy: a new Env object whose fields are the same objects. *)
shallowcopy(es, ds, self) ==
    [es |-> [es EXCEPT ![NewRef] = es[self]], ds |-> ds, ref |-> NewRef]

(* copy.deepcopy: a new Env object with a new compute dict of equal content. *)
deepcopy(es, ds, self) ==
    IF es[self].compute = 0
    THEN [es |-> [es EXCEPT ![NewRef] = es[self]], ds |-> ds, ref |-> NewRef]
    ELSE [es |-> [es EXCEPT ![NewRef] = [es[self] EXCEPT !.compute = NewDict]],
          ds |-> [ds EXCEPT ![NewDict] = ds[es[self].compute]],
          ref |-> NewRef]

(* Package.to(system): the package rebased onto the system. *)
PackageTo(r, system) == [r EXCEPT !.loc = system]

(* One iteration of the loop of Env._reqs_to. *)
ReqTo(r, system) ==
    LET req == IF r.form = "str" /\ PackageFromString(r).folder
               THEN PackageFromString(r) ELSE r
    IN  IF req.form = "pkg" /\ req.folder THEN PackageTo(req, system) ELSE req

(* _reqs_to returning every new requirement as the declared ones, the      *)
(* working directory among them.                                           *)
_reqs_toNoSplit(self, system) ==
    LET rs == reqs(self)
        new_reqs == [i \in 1..Len(rs) |-> ReqTo(rs[i], system)]
        moved == SelectSeq(new_reqs, LAMBDA r : r.form = "pkg" /\ r.folder)
    IN  [reqs |-> new_reqs,
         working_dir |-> IF self.working_dir # None
                         THEN Some(new_reqs[Len(new_reqs)]) ELSE None,
         events |-> [i \in 1..Len(moved) |-> Event("upload", moved[i].id, TRUE)]]

(* Env._reqs_to(system): (new_reqs, new working_dir) and the uploads made. *)
_reqs_to(self, system) ==
    LET rs == reqs(self)
        new_reqs == [i \in 1..Len(rs) |-> ReqTo(rs[i], system)]
        moved == SelectSeq(new_reqs, LAMBDA r : r.form = "pkg" /\ r.folder)
    IN  [reqs |-> IF self.working_dir # None
                  THEN SubSeq(new_reqs, 1, Len(new_reqs) - 1) ELSE new_reqs,
         working_dir |-> IF self.working_dir # None
                         THEN Some(new_reqs[Len(new_reqs)]) ELSE None,
         events |-> [i \in 1..Len(moved) |-> Event("upload", moved[i].id, TRUE)]]

(* Env._secrets_to(system): one migration per secret. *)
_secrets_to(self, system) ==
    Ok([i \in 1..Len(self.secrets) |-> Event("secret", self.secrets[i], TRUE)])

(* The node index test with an off-by-one bound. *)
NodeIdxOutOfBoundsStrict(node_idx, n) == node_idx > n

(* The node index test of Env.to. *)
NodeIdxOutOfBounds(node_idx, n) == node_idx >= n

(* Statement sequencing: b runs after a unless a raised. *)
Then(a, b) ==
    IF a.raised # "none" THEN a
    ELSE [events |-> a.events \o b.events, raised |-> b.raised]

(* The steps of Env.to with the secrets migrated before the install. *)
ClusterStepsSecretsFirst(put, setenv, inst, sec) == Then(Then(Then(put, setenv), sec), inst)

(* The order in which Env.to issues its steps on a cluster. *)
ClusterSteps(put, setenv, inst, sec) == Then(Then(Then(put, setenv), inst), sec)

(* The target's default environment (the one the test fixtures build). *)
DefaultEnv ==
    [name |-> "default_env", _reqs |-> <<Req("str", FALSE, "pytest", "here")>>,
     setup_cmds |-> None, env_vars |-> EnvVarsDict({}), working_dir |-> None,
     secrets |-> <<>>, compute |-> Some({})]

(* Cluster.put_resource(new_env): the target rebuilds the Env from its     *)
(* config and stores it under its name.                                    *)
PutResource(reg, new_env) == DictSet(reg, new_env.name, FromConfig(Config(new_env)))

(* Env._set_env_vars on the target: os.environ[k] = v for each entry. *)
_set_env_vars(env, env_vars) == {p \in env : p[1] \notin Keys(env_vars)} \cup env_vars

(* The outcome of a to(): the heap h, the target's state, the events, what *)
(* was raised, the returned Env and the Env install() ran on, if any.      *)
ToResult(h, installed, reg, env, events, raised, ret, onnode) ==
    [es |-> h.es, ds |-> h.ds, installed |-> installed, registry |-> reg,
     environ |-> env, events |-> events, raised |-> raised, ret |-> ret,
     onnode |-> onnode]

(* env.py:211: new_env.reqs, new_env.working_dir = self._reqs_to(...) *)
Rebase(h, rt) ==
    [h EXCEPT !.es[h.ref]._reqs = rt.reqs, !.es[h.ref].working_dir = rt.working_dir]

(* env.py:220-223: new_env.compute["node_idx"] = node_idx, on a new dict   *)
(* when compute is None.                                                   *)
EnsureCompute(h) ==
    IF h.es[h.ref].compute = 0
    THEN [h EXCEPT !.es[h.ref].compute = NewDict, !.ds[NewDict] = {}]
    ELSE h

SetNodeIdx(h, k) == [h EXCEPT !.ds[h.es[h.ref].compute] = DictSet(@, "node_idx", k)]

RecordNodeIdx(h, node_idx) ==
    IF node_idx = None THEN h ELSE SetNodeIdx(EnsureCompute(h), node_idx[1])

(* Every Env, anonymous or not, goes through install() and its cache. *)
InstallOnTargetCached(new_env, onnode, installed, force, failing) ==
    install(onnode, force, installed, failing)

(* env.py:235-239: install on the target for a named Env, _install_reqs    *)
(* then _run_setup_cmds on the default Env for an anonymous one.           *)
InstallOnTarget(new_env, onnode, installed, force, failing) ==
    IF new_env.name # NoName
    THEN install(onnode, force, installed, failing)
    ELSE [installed |-> installed] @@
         Then(_install_reqs(onnode, Some(reqs(new_env)), failing),
              _run_setup_cmds(onnode, new_env.setup_cmds, failing))

(* env.py:244: what to() leaves behind once its steps have run. *)
ToFinish(h, new_env, uploads, reg1, env1, onnode, installed1, run) ==
    ToResult(h, installed1, reg1, env1, uploads \o run.events, run.raised,
             IF run.raised = "none" THEN Some(new_env) ELSE None,
             IF new_env.name # NoName THEN Some(onnode) ELSE None)

(* env.py:231-242: the variables are set, the install runs, the secrets    *)
(* are migrated.                                                           *)
ToSteps(h, new_env, key, uploads, reg1, env, env_vars, onnode, ins, sec) ==
    ToFinish(h, new_env, uploads, reg1,
             IF env_vars # {} THEN _set_env_vars(env, env_vars) ELSE env,
             onnode, ins.installed,
             ClusterSteps(
                 Ok(IF new_env.name # NoName THEN <<Event("put", key, TRUE)>> ELSE <<>>),
                 Ok(IF env_vars # {} THEN <<Event("setenv", key, TRUE)>> ELSE <<>>),
                 [events |-> ins.events, raised |-> ins.raised],
                 sec))

ToRegistered(h, new_env, key, me, uploads, installed, reg1, env, force, failing) ==
    ToSteps(h, new_env, key, uploads, reg1, env, _process_env_vars(me.env_vars),
            DictGet(reg1, key),
            InstallOnTarget(new_env, DictGet(reg1, key), installed, force, failing),
            _secrets_to(me, "cluster"))

(* Every Env, named or not, is served under the default Env's key and     *)
(* nothing is put.                                                         *)
ToClusterDefaultKey(h, new_env, me, uploads, installed, reg, env, force, failing) ==
    ToRegistered(h, new_env, DefaultEnv.name, me, uploads, installed, reg,
                 env, force, failing)

(* env.py:225-229: key = put_resource(new_env) or the default Env's name. *)
ToCluster(h, new_env, me, uploads, installed, reg, env, force, failing) ==
    ToRegistered(h, new_env,
                 IF new_env.name # NoName THEN new_env.name ELSE DefaultEnv.name,
                 me, uploads, installed,
                 IF new_env.name # NoName THEN PutResource(reg, new_env) ELSE reg,
                 env, force, failing)

(* Every system is treated as a cluster. *)
ToRebasedAnySystem(h, me, uploads, installed, reg, env, system, node_idx, force, failing) ==
    IF node_idx # None /\ NodeIdxOutOfBounds(node_idx[1], NumNodes)
    THEN ToResult(h, installed, reg, env, uploads, NodeIdxError, None, None)
    ELSE ToCluster(RecordNodeIdx(h, node_idx),
                   Deref(RecordNodeIdx(h, node_idx).es, RecordNodeIdx(h, node_idx).ds, h.ref),
                   me, uploads, installed, reg, env, force, failing)

(* env.py:213-223: nothing more for a file system; the node index test. *)
ToRebased(h, me, uploads, installed, reg, env, system, node_idx, force, failing) ==
    IF system # "cluster"
    THEN ToResult(h, installed, reg, env, uploads, "none",
                  Some(Deref(h.es, h.ds, h.ref)), None)
    ELSE IF node_idx # None /\ NodeIdxOutOfBounds(node_idx[1], NumNodes)
    THEN ToResult(h, installed, reg, env, uploads, NodeIdxError, None, None)
    ELSE ToCluster(RecordNodeIdx(h, node_idx),
                   Deref(RecordNodeIdx(h, node_idx).es, RecordNodeIdx(h, node_idx).ds, h.ref),
                   me, uploads, installed, reg, env, force, failing)

ToCopied(c, me, rt, installed, reg, env, system, node_idx, force, failing) ==
    ToRebased(Rebase(c, rt), me, rt.events, installed, reg, env, system, node_idx,
              force, failing)

(* Env.to(system, node_idx, force_install=force) of the client object self *)
(* on the heap (es, ds), against the target's state (installed, reg, env). *)
to(es, ds, installed, reg, env, self, system, node_idx, force, failing) ==
    ToCopied(deepcopy(es, ds, self), Deref(es, ds, self),
             _reqs_to(Deref(es, ds, self), system),
             installed, reg, env, system, node_idx, force, failing)

----------------------------------------------------------------------------
(* The Envs the client builds and the inputs of its calls.                 *)

Content(rq, cmds, ev, wd, sec, comp) ==
    [_reqs |-> rq, setup_cmds |-> cmds, env_vars |-> ev, working_dir |-> wd,
     secrets |-> sec, compute |-> comp]

(* compute: "default" is the shared default dict, "none" is None, "own" is *)
(* a dict the caller passed.                                               *)
ContentA == Content(<<Numpy, MyPkg>>, Some(<<"c1", "c2">>), EnvVarsDict({<<"K", "V">>}),
                    Some(LocalDir), <<"s1", "s2">>, "default")
ContentB == Content(<<Numpy, Bogus, PipPkg>>, Some(<<"c1">>), EnvVarsDict({}),
                    None, <<"s1">>, "none")
ContentC == Content(<<>>, None, EnvVarsFile, None, <<>>, "own")

(* <<content of the two named Envs, content of the anonymous Env>> *)
Builds == {<<ContentA, ContentC>>, <<ContentB, ContentA>>, <<ContentC, ContentB>>}

(* Env.__init__ of client object r. *)
NewEnv(r, name, c) ==
    [name |-> name, _reqs |-> c._reqs, setup_cmds |-> c.setup_cmds,
     env_vars |-> c.env_vars, working_dir |-> c.working_dir, secrets |-> c.secrets,
     compute |-> CASE c.compute = "default" -> DefaultDict
                   [] c.compute = "none" -> 0
                   [] OTHER -> r + 1]

(* What can go wrong on the node: ids of requirements whose installer      *)
(* raises, and setup commands that exit nonzero.                           *)
FailMenu == {{}, {"numpy"}, {"c1"}}

NodeIdxs == {None} \cup {Some(k) : k \in (-1)..NumNodes}

ToInputs ==
    {[system |-> "cluster", node_idx |-> k, force |-> FALSE, failing |-> {}] : k \in NodeIdxs}
    \cup {[system |-> "cluster", node_idx |-> None, force |-> f, failing |-> bad] :
             f \in BOOLEAN, bad \in FailMenu}
    \cup {[system |-> "fs", node_idx |-> Some(0), force |-> FALSE, failing |-> {}]}

Ids(rs) == [i \in 1..Len(rs) |-> rs[i].id]

(* What a full install of the Env e invokes, in order. *)
WantedPkgs(e) == Ids(e._reqs) \o (IF e.working_dir # None THEN <<e.working_dir[1].id>> ELSE <<>>)
WantedCmds(e) == IF e.setup_cmds = None THEN <<>> ELSE e.setup_cmds[1]

(* The calls that install() serves concurrently in the node process. *)
Threads == {1, 2}
Idle == [pc |-> "idle", key |-> "", force |-> FALSE, i |-> 0]

(* The fields of an Env that copy-on-send speaks of. *)
View(e) == [reqs |-> reqs(e), working_dir |-> e.working_dir, secrets |-> e.secrets,
            compute |-> e.compute]

----------------------------------------------------------------------------
(* The Remote Invocation Protocol: Send and its call methods (send.py).    *)
(* A Python value that travels (a result, a decoded body) is an Optional;  *)
(* an exception object is its type and its args.                           *)

Write == "write"                       \* ResourceAccess
Read == "read"
Proxy == "proxy"
DEFAULT_ACCESS == "write"
HTTP_OK == 200

Exc(type, value) == [type |-> type, value |-> value]

(* pickle.dumps and pickle.loads: bytes that hold the value. *)
pickle_dumps(v) == [pickled |-> v]
pickle_loads(b) == b.pickled

(* json.dumps; json.loads, which raises on bytes that are not JSON. *)
json_dumps(v) == [json |-> TRUE, text |-> v]
json_loads(content) ==
    IF content.json
    THEN [raised |-> None, value |-> content.text]
    ELSE [raised |-> Some(Exc("JSONDecodeError", <<"Expecting value">>)), value |-> None]

(* read_response_data(resp): the decoded body of the response. *)
read_response_data(resp) == json_loads(resp.content)

(* What a call did, in order: t is "info" or "error" (a log record),       *)
(* "ray_init", "grpc" (x is the request handed to call_grpc), "resp" (x is *)
(* the raw response message), "rpcfail" (call_grpc raised x), "post" (x is *)
(* the HTTP request), "httpresp" (x is the HTTP response) or "httpfail".   *)
Did(t, x) == [t |-> t, x |-> x]

(* How a call ended: raised is None or the exception, ret is None or       *)
(* Some(the value returned).                                               *)
Outcome(events, raised, ret) == [events |-> events, raised |-> raised, ret |-> ret]

After(first, o) == [o EXCEPT !.events = first \o @]

(* Send.__init__: the fields the call methods read. *)
NewSend(fn_pointers, name, access) ==
    [fn_pointers |-> fn_pointers, name |-> name,
     access |-> IF access = None THEN DEFAULT_ACCESS ELSE access[1]]

(* The response is decoded and the remote exception is raised unlogged,    *)
(* wrapped in a generic exception.                                         *)
HandleResponseWrapped(fn_type, done, raw_msg) ==
    IF pickle_loads(raw_msg)[2] # None
    THEN Outcome(done \o <<Did("resp", raw_msg)>>,
                 Some(Exc("Exception", <<"remote call failed">>)), None)
    ELSE Outcome(done \o <<Did("resp", raw_msg)>>, None, Some(pickle_loads(raw_msg)[1]))

(* send.py:271-277: [res, fn_exception, fn_traceback] is unpickled; the    *)
(* exception and the traceback are logged and the exception is raised, or  *)
(* res is returned.                                                        *)
HandleResponse(fn_type, done, raw_msg) ==
    IF pickle_loads(raw_msg)[2] # None
    THEN Outcome(done \o <<Did("resp", raw_msg),
                           Did("error", pickle_loads(raw_msg)[2]),
                           Did("error", pickle_loads(raw_msg)[3])>>,
                 pickle_loads(raw_msg)[2], None)
    ELSE Outcome(done \o <<Did("resp", raw_msg)>>, None, Some(pickle_loads(raw_msg)[1]))

(* send.py:267-268: the request envelope. *)
serialized_func(self, fn_type, args, kwargs) ==
    pickle_dumps(<<self.fn_pointers[1][1], self.fn_pointers[1][2], self.fn_pointers[1][3],
                   fn_type, args, kwargs>>)

(* A failure of call_grpc is swallowed and None is returned. *)
TransmitSwallow(self, fn_type, args, kwargs, done, reply) ==
    IF reply.raises # None
    THEN Outcome(done \o <<Did("grpc", serialized_func(self, fn_type, args, kwargs)),
                           Did("rpcfail", reply.raises)>>, None, Some(None))
    ELSE HandleResponse(fn_type,
                        done \o <<Did("grpc", serialized_func(self, fn_type, args, kwargs))>>,
                        reply.message)

(* send.py:270: hardware.call_grpc sends the envelope and returns the raw  *)
(* response, or raises.                                                    *)
Transmit(self, fn_type, args, kwargs, done, reply) ==
    IF reply.raises # None
    THEN Outcome(done \o <<Did("grpc", serialized_func(self, fn_type, args, kwargs)),
                           Did("rpcfail", reply.raises)>>, reply.raises, None)
    ELSE HandleResponse(fn_type,
                        done \o <<Did("grpc", serialized_func(self, fn_type, args, kwargs))>>,
                        reply.message)

SendName(self) == IF self.name # NoName THEN self.name ELSE "anonymous send"

NoFnPointers(self) == Exc("RuntimeError", <<"No fn pointers saved for ", SendName(self)>>)

(* The envelope goes out before the fn pointers are looked at. *)
_call_fn_with_ssh_accessLateCheck(self, fn_type, args, kwargs, reply) ==
    IF self.fn_pointers = None
    THEN Outcome(<<Did("info", SendName(self)),
                   Did("grpc", pickle_dumps(<<None, "", "", fn_type, args, kwargs>>))>>,
                 Some(NoFnPointers(self)), None)
    ELSE Transmit(self, fn_type, args, kwargs, <<Did("info", SendName(self))>>, reply)

(* Send._call_fn_with_ssh_access(fn_type, args, kwargs) *)
_call_fn_with_ssh_access(self, fn_type, args, kwargs, reply) ==
    IF self.fn_pointers = None
    THEN Outcome(<<Did("info", SendName(self))>>, Some(NoFnPointers(self)), None)
    ELSE Transmit(self, fn_type, args, kwargs, <<Did("info", SendName(self))>>, reply)

(* Send.http_url(): the endpoint of the Send on the API server. *)
http_url(self) == <<"api_server_url", "proxy", self.name, "endpoint">>

(* rns_client.request_headers: the bearer token. *)
request_headers(tok) == [Authorization |-> <<"Bearer", tok[1]>>]

(* send.py:186-188: the POST request. *)
PostRequest(self, tok, args, kwargs) ==
    [url |-> http_url(self), data |-> json_dumps([args |-> args, kwargs |-> kwargs]),
     headers |-> request_headers(tok)]

NotOk(body) == Exc("Exception", <<"Failed to run Send endpoint: ">> \o body)

(* send.py:189-193: a status other than 200 raises with the decoded body,  *)
(* a 200 returns the response data.                                        *)
HttpResult(done, resp) ==
    IF resp.status_code # HTTP_OK
    THEN IF json_loads(resp.content).raised # None
         THEN Outcome(done, json_loads(resp.content).raised, None)
         ELSE Outcome(done, Some(NotOk(json_loads(resp.content).value)), None)
    ELSE IF read_response_data(resp).raised # None
         THEN Outcome(done, read_response_data(resp).raised, None)
         ELSE Outcome(done, None, Some(read_response_data(resp).value))

(* requests.post: the request goes out; a response comes back or the call  *)
(* raises.                                                                 *)
Post(done, request, hreply) ==
    IF hreply.raises # None
    THEN Outcome(done \o <<Did("post", request), Did("httpfail", hreply.raises)>>,
                 hreply.raises, None)
    ELSE HttpResult(done \o <<Did("post", request), Did("httpresp", hreply)>>, hreply)

NoToken == Exc("ValueError", <<"Token must be saved in the local .rh config in order to use an http url">>)

(* The token is not looked at before the request is posted. *)
CallViaHttpNoTokenCheck(self, tok, args, kwargs, hreply) ==
    Post(<<Did("info", http_url(self))>>,
         PostRequest(self, IF tok = None THEN Some("") ELSE tok, args, kwargs), hreply)

(* send.py:182-193: the proxy branch of __call__. *)
CallViaHttp(self, tok, args, kwargs, hreply) ==
    IF tok = None \/ tok = Some("")
    THEN Outcome(<<>>, Some(NoToken), None)
    ELSE Post(<<Did("info", http_url(self))>>, PostRequest(self, tok, args, kwargs), hreply)

ProxyRequired == Exc("RuntimeError", <<"Running http url requires proxy access">>)

NotImplementedError(method) ==
    Exc("NotImplementedError", <<method, " only works with Write or Read access, not Proxy access">>)

(* Every access level calls over the RPC channel. *)
__call__AlwaysSsh(self, tok, args, kwargs, reply, hreply) ==
    _call_fn_with_ssh_access(self, "call", args, kwargs, reply)

(* Send.__call__: the call itself. *)
__call__(self, tok, args, kwargs, reply, hreply) ==
    IF self.access \in {Write, Read}
    THEN _call_fn_with_ssh_access(self, "call", args, kwargs, reply)
    ELSE IF self.access # Proxy
    THEN Outcome(<<>>, Some(ProxyRequired), None)
    ELSE CallViaHttp(self, tok, args, kwargs, hreply)

(* One call envelope per repetition. *)
repeatEach(self, num_repeats, args, kwargs, reply) ==
    IF self.access \in {Write, Read}
    THEN After(_call_fn_with_ssh_access(self, "call", args, kwargs, reply).events,
               _call_fn_with_ssh_access(self, "call", args, kwargs, reply))
    ELSE Outcome(<<>>, Some(NotImplementedError("Send.repeat")), None)

(* Send.repeat: num_repeats calls with the same arguments. *)
repeat(self, num_repeats, args, kwargs, reply) ==
    IF self.access \in {Write, Read}
    THEN _call_fn_with_ssh_access(self, "repeat", <<num_repeats, args>>, kwargs, reply)
    ELSE Outcome(<<>>, Some(NotImplementedError("Send.repeat")), None)

(* map without the test of the access level. *)
mapUngated(self, arg_list, kwargs, reply) ==
    _call_fn_with_ssh_access(self, "map", arg_list, kwargs, reply)

(* Send.map: one call per element of arg_list. *)
map(self, arg_list, kwargs, reply) ==
    IF self.access \in {Write, Read}
    THEN _call_fn_with_ssh_access(self, "map", arg_list, kwargs, reply)
    ELSE Outcome(<<>>, Some(NotImplementedError("Send.map")), None)

(* Send.starmap: like map, each element unpacked. *)
starmap(self, args_lists, kwargs, reply) ==
    IF self.access \in {Write, Read}
    THEN _call_fn_with_ssh_access(self, "starmap", args_lists, kwargs, reply)
    ELSE Outcome(<<>>, Some(NotImplementedError("Send.starmap")), None)

(* Send.enqueue: the call is queued. *)
enqueue(self, args, kwargs, reply) ==
    IF self.access \in {Write, Read}
    THEN _call_fn_with_ssh_access(self, "queue", args, kwargs, reply)
    ELSE Outcome(<<>>, Some(NotImplementedError("Send.enqueue")), None)

(* Send.remote: ray.init runs before the access test. *)
remote(self, args, kwargs, reply) ==
    After(<<Did("ray_init", "ignore_reinit_error")>>,
          IF self.access \in {Write, Read}
          THEN _call_fn_with_ssh_access(self, "remote", args, kwargs, reply)
          ELSE Outcome(<<>>, Some(NotImplementedError("Send.map")), None))

(* Send.get(obj_ref): a single object ref is wrapped into a list. *)
get(self, obj_ref, is_list, reply) ==
    IF self.access \in {Write, Read}
    THEN _call_fn_with_ssh_access(self, "get", IF is_list THEN obj_ref ELSE <<obj_ref>>,
                                  {}, reply)
    ELSE Outcome(<<>>, Some(NotImplementedError("Send.get")), None)

(* The Sends the client holds. *)
FnPointers == <<Some("pkg/sub"), "mod", "fn">>
NotebookFnPointers == <<None, "send_fn", "f">>

SendRefs == {1, 2, 3, 4}
Sends0 ==
    [r \in SendRefs |->
        CASE r = 1 -> NewSend(Some(FnPointers), "s1", None)
          [] r = 2 -> NewSend(Some(NotebookFnPointers), NoName, Some(Read))
          [] r = 3 -> NewSend(None, "s3", Some(Write))
          [] OTHER -> NewSend(Some(FnPointers), "s4", Some(Proxy))]

Tokens == {None, Some(""), Some("tok")}

(* What the caller passes. *)
Inp(args, kwargs, num_repeats, is_list) ==
    [args |-> args, kwargs |-> kwargs, num_repeats |-> num_repeats, is_list |-> is_list]

CallInputs == {Inp(<<"x">>, {<<"k", "v">>}, 0, FALSE)}
RepeatInputs == {Inp(<<"x">>, {}, 3, FALSE)}
MapInputs == {Inp(<<"x", "y">>, {}, 0, TRUE)}
StarmapInputs == {Inp(<<<<"x", "y">>, <<"z", "w">>>>, {}, 0, TRUE)}
GetInputs == {Inp("ref1", {}, 0, FALSE), Inp(<<"ref1", "ref2">>, {}, 0, TRUE)}

(* What the target answers over the RPC channel: the channel fails, or a   *)
(* response envelope [res, fn_exception, fn_traceback] comes back.  The    *)
(* remote function may itself raise what a failing channel raises.         *)
RpcError == Exc("RpcError", <<"unavailable">>)
Envelope(res, fn_exception, fn_traceback) == pickle_dumps(<<res, fn_exception, fn_traceback>>)
GrpcReplies ==
    {[raises |-> Some(RpcError), message |-> Envelope(None, None, None)]}
    \cup {[raises |-> None, message |-> m] :
             m \in {Envelope(Some("r1"), None, None),
                    Envelope(None, None, None),
                    Envelope(None, Some(Exc("ValueError", <<"M">>)), Some("tb")),
                    Envelope(None, Some(RpcError), Some("tb"))}}

(* What the API server answers to the POST. *)
Body(is_json, text) == [json |-> is_json, text |-> Some(text)]
HttpReplies ==
    {[raises |-> Some(Exc("ConnectionError", <<"refused">>)), status_code |-> 0,
      content |-> Body(FALSE, "")],
     [raises |-> None, status_code |-> 200, content |-> Body(TRUE, "r1")],
     [raises |-> None, status_code |-> 500, content |-> Body(TRUE, "detail")],
     [raises |-> None, status_code |-> 502, content |-> Body(FALSE, "Bad Gateway")]}

NoCall ==
    [n |-> 0, op |-> "none", self |-> 0, inp |-> Inp(<<>>, {}, 0, FALSE),
     events |-> <<>>, raised |-> None, ret |-> None]

(* No method of a Send has been called. *)
NoSendCalls ==
    /\ sends = Sends0
    /\ ray = FALSE
    /\ rpc = <<>>
    /\ http = <<>>
    /\ last = NoCall

----------------------------------------------------------------------------
(* Building a Send: Send.__init__, Send.from_config and the send()         *)
(* factory (send.py:25-163, 405-511).  A configuration is a record whose   *)
(* fields are Optional: None stands for a key the dict does not have.      *)

(* The functions the client passes to send(): file is None for a function  *)
(* defined in a notebook or an interactive interpreter.                    *)
Fn(file, name, src) == [file |-> file, name |-> name, src |-> src]
NoFn == Fn(None, "", "")
FileFn == Fn(Some("/proj/pkg/sub/mod.py"), "fn", "def fn")
NotebookF == Fn(None, "f", "def f")
NotebookG == Fn(None, "g", "def g")
LambdaFn == Fn(Some("/proj/pkg/sub/mod.py"), "<lambda>", "lambda x")

(* rns_client.locate_working_dir(). *)
WorkingDir == "/proj"
DEFAULT_HARDWARE == "^rh-cpu"

(* send.py:121: the function has no module file, or is a lambda. *)
InNotebook(raw_fn) == raw_fn.file = None \/ raw_fn.name = "<lambda>"

(* Send.extract_fn_paths(raw_fn, reqs): (remote import path, module name,  *)
(* function name); the import path is kept for a local requirement that    *)
(* holds the module's directory.                                           *)
extract_fn_paths(raw_fn, reqs_) ==
    <<IF \E k \in 1..Len(reqs_) : reqs_[k] \in {"./", "reqs:/proj"}
      THEN Some(IF InNotebook(raw_fn) THEN "proj/." ELSE "proj/pkg/sub") ELSE None,
      IF InNotebook(raw_fn) THEN "notebook" ELSE "mod",
      raw_fn.name>>

(* send.py:459, 470: the stem of the directory or file that holds the      *)
(* function of a Send made in a notebook.                                  *)
Stem(name) ==
    CASE name = NoName -> "send_fn"
      [] name = "a" -> "a_fn"
      [] OTHER -> "b_fn"

(* send.py:73-78: the hardware is asked whether it is up, is brought up    *)
(* when it is not, and the requirements are installed on it.               *)
SetUpInstallFirst(reqs_, up) ==
    <<Did("install_packages", reqs_), Did("is_up", <<>>)>>
        \o (IF up THEN <<>> ELSE <<Did("up", <<>>)>>)

SetUp(reqs_, up) ==
    <<Did("is_up", <<>>)>>
        \o (IF up THEN <<>> ELSE <<Did("up", <<>>)>>)
        \o <<Did("install_packages", reqs_)>>

(* Send.__init__(fn_pointers, hardware, name, reqs, dryrun, access): the   *)
(* new Send, and what was done on the hardware, found up or not.           *)
Send__init__(fn_pointers, hardware, name, reqs_, dryrun, access, up) ==
    LET self == [fn_pointers |-> fn_pointers, hardware |-> hardware, name |-> name,
                 reqs |-> IF reqs_ = None THEN <<"reqs:/proj">> ELSE reqs_[1],
                 access |-> IF access = None THEN DEFAULT_ACCESS ELSE access[1],
                 dryrun |-> dryrun]
    IN  [self |-> self,
         events |-> IF ~dryrun /\ self.access \in {Write, Read}
                    THEN SetUp(self.reqs, up) ELSE <<>>]

(* A stored configuration, and what rns_client.load_config(name) finds. *)
SendConfig(name, reqs_, fn_pointers, hardware, access_level) ==
    [name |-> name, reqs |-> reqs_, fn_pointers |-> fn_pointers, hardware |-> hardware,
     access_level |-> access_level, access |-> None]

load_config(name) ==
    CASE name = "a" -> SendConfig(Some("a"), Some(<<"./">>), Some(FnPointers),
                                  Some("rh-cluster"), Some(Proxy))
      [] name = "b" -> SendConfig(Some("b"), None, None, None, Some(Read))
      [] OTHER -> SendConfig(None, None, None, None, None)

(* Send.from_config(config, dryrun): the config is unpacked into the      *)
(* arguments of Send.__init__; the keys that __init__ does not name,       *)
(* access_level among them, end in its kwargs.                             *)
from_config(config, dryrun, up) ==
    IF config.fn_pointers = None
    THEN [raised |-> Some(Exc("ValueError", <<"No fn_pointers provided in config.">>)),
          self |-> None, events |-> <<>>]
    ELSE LET made == Send__init__(config.fn_pointers[1], config.hardware[1],
                                  config.name, config.reqs, dryrun, config.access, up)
         IN  [raised |-> None, self |-> Some(made.self), events |-> made.events]

(* send.py:450-490: the function pointers of fn; a notebook function is    *)
(* written to the module <stem>.py (or pickled into the package directory  *)
(* <stem>) in the working directory, named after the Send, and the         *)
(* pointers name that module.                                              *)
FnStep(fn, name, reqs_, serialize) ==
    LET fp == extract_fn_paths(fn, reqs_)
    IN  IF fp[2] # "notebook"
        THEN [fn_pointers |-> fp, reqs |-> reqs_, written |-> None]
        ELSE [fn_pointers |-> <<fp[1], Stem(name), fp[3]>>,
              reqs |-> IF serialize THEN Append(reqs_, Stem(name)) ELSE reqs_,
              written |-> Some(<<Stem(name), IF serialize THEN "functions.pickle" ELSE ".py">>)]

(* send(fn, name, reqs, dryrun, load_secrets, serialize_notebook_fn) with  *)
(* the files of the working directory and the hardware found up or not.    *)
send(fn, name, reqs_, dryrun, load_secrets, serialize, files, up) ==
    LET stored == load_config(name)
        cname == IF name # NoName THEN name
                 ELSE IF stored.name # None THEN stored.name[1] ELSE NoName
        creqs == IF reqs_ # None THEN reqs_[1]
                 ELSE IF stored.reqs # None THEN stored.reqs[1] ELSE <<"./">>
        step == IF fn # NoFn THEN FnStep(fn, cname, creqs, serialize)
                ELSE [fn_pointers |-> <<>>, reqs |-> creqs, written |-> None]
        config == [stored EXCEPT
                     !.name = cname,
                     !.reqs = Some(step.reqs),
                     !.fn_pointers = IF fn # NoFn THEN Some(step.fn_pointers) ELSE @,
                     !.hardware = IF @ # None THEN @ ELSE Some(DEFAULT_HARDWARE),
                     !.access_level = IF @ # None THEN @ ELSE Some(DEFAULT_ACCESS)]
        new_send == from_config(config, dryrun, up)
        wrote == IF step.written # None THEN <<Did("write", step.written[1])>> ELSE <<>>
    IN  [files |-> IF step.written # None THEN DictSet(files, step.written[1], fn.src)
                   ELSE files,
         stored |-> stored,
         written |-> step.written,
         raised |-> new_send.raised,
         self |-> new_send.self,
         ctor |-> new_send.events,
         events |-> wrote \o new_send.events
                    \o (IF new_send.raised = None /\ load_secrets /\ ~dryrun
                        THEN <<Did("send_secrets", <<>>)>> ELSE <<>>)
                    \o (IF new_send.raised = None /\ cname # NoName
                        THEN <<Did("save", <<cname>>)>> ELSE <<>>)]

(* Nothing has been built: the working directory holds no function module. *)
NoSendsBuilt ==
    /\ cwd_files = {}
    /\ built = <<>>

----------------------------------------------------------------------------
(* Installation helpers (resources/envs/utils.py).  A command is the       *)
(* sequence of its words; f"{cmd_prefix} {cmd}" is the concatenation.      *)

NoCluster == None
Cluster(on, run_cmd) == Some([on_this_cluster |-> on, run_cmd |-> run_cmd])
CondaPrefix == <<"conda", "run", "-n", "env">>

(* What a finished process hands back: its return code and what it wrote. *)
Proc(returncode, stdout, stderr) ==
    [returncode |-> returncode, stdout |-> stdout, stderr |-> stderr]

(* run_with_logs(cmd, stream_logs=, require_outputs=) for a process p.     *)
(* With stream_logs the loop reads p.stdout to its end into out, so that   *)
(* communicate() has no stdout left and stdout = stdout or out is out.     *)
run_with_logs(cmd, stream_logs, require_outputs, p) ==
    LET out == IF stream_logs /\ require_outputs THEN p.stdout ELSE ""
        communicated == IF stream_logs THEN "" ELSE p.stdout
        stdout == IF communicated # "" THEN communicated ELSE out
    IN  [popen |-> <<[cmd |-> cmd, stream_logs |-> stream_logs]>>,
         result |-> IF require_outputs
                    THEN <<p.returncode, stdout, p.stderr>>
                    ELSE <<p.returncode>>]

(* cluster._run_commands_with_ssh(commands, stream_logs=, env_vars=): one  *)
(* (exit_code, stdout, stderr) per command, in order.                      *)
_run_commands_with_ssh(commands, stream_logs, env_vars, p) ==
    [sent |-> <<[commands |-> commands, stream_logs |-> stream_logs,
                 env_vars |-> env_vars]>>,
     result |-> [i \in 1..Len(commands) |-> <<p.returncode, p.stdout, p.stderr>>]]

run_setup_commandAlwaysSsh(cmd, cluster, env_vars, stream_logs, p) ==
    IF cluster = NoCluster
    THEN LET r == run_with_logs(cmd, stream_logs, TRUE, p)
         IN  [popen |-> r.popen, sent |-> <<>>, result |-> SubSeq(r.result, 1, 2)]
    ELSE LET r == _run_commands_with_ssh(<<cmd>>, stream_logs, env_vars, p)
         IN  [popen |-> <<>>, sent |-> r.sent, result |-> r.result[1]]

(* run_setup_command(cmd, cluster, env_vars, stream_logs) *)
run_setup_command(cmd, cluster, env_vars, stream_logs, p) ==
    IF cluster = NoCluster
    THEN LET r == run_with_logs(cmd, stream_logs, TRUE, p)
         IN  [popen |-> r.popen, sent |-> <<>>, result |-> SubSeq(r.result, 1, 2)]
    ELSE IF cluster[1].on_this_cluster
    THEN LET cmd_prefix == cluster[1].run_cmd
             prefixed == IF cmd_prefix # <<>> THEN cmd_prefix \o cmd ELSE cmd
             r == run_with_logs(prefixed, stream_logs, TRUE, p)
         IN  [popen |-> r.popen, sent |-> <<>>, result |-> SubSeq(r.result, 1, 2)]
    ELSE LET r == _run_commands_with_ssh(<<cmd>>, stream_logs, env_vars, p)
         IN  [popen |-> <<>>, sent |-> r.sent, result |-> r.result[1]]

NoCmd == [n |-> 0, cmd |-> <<>>, cluster |-> NoCluster, stream_logs |-> FALSE,
          env_vars |-> {}, result |-> <<>>]

(* No command has been run. *)
NoCmds ==
    /\ shell = <<>>
    /\ ssh = <<>>
    /\ cmdlast = NoCmd

----------------------------------------------------------------------------
(* The registry of a target, as the cluster tests drive it: put, get,      *)
(* keys, delete, put_resource and status over the object store that is     *)
(* partitioned by environment.                                             *)

base_env == "base"                     \* the key of the default environment
NamedEnvs == {"env1", "env2"}          \* the environments the client sends with to()
StoredEnv == "env3"                    \* an environment that is only stored as a resource
ObjectKeys == {"k1", "k2"}
ObjectValues == {"v1", "v2"}

(* The values a client puts: a string, or an Env resource with its name    *)
(* and working directory.                                                  *)
StrValue(s) == [kind |-> "str", v |-> s, working_dir |-> ""]
EnvResource(name) == [kind |-> "Env", v |-> name, working_dir |-> "./"]

(* The resource-type tag the registry records for a value. *)
resource_type(v) == IF v.kind = "Env" THEN "Env" ELSE "str"

(* A freshly stored object: the value, its tag, and no call in flight. *)
StoredObject(v) ==
    [value |-> v, resource_type |-> resource_type(v), active_function_calls |-> <<>>]

Without(f, k) == [x \in DOMAIN f \ {k} |-> f[x]]

(* The partitions that hold the key k. *)
PartitionsOf(store, k) == {e \in DOMAIN store : k \in DOMAIN store[e]}

(* The process that serves one environment's partition. *)
ServletProcess(name) ==
    [pid |-> name, node_ip |-> "10.0.0.1", node_name |-> "head",
     env_gpu_usage |-> "none", env_memory_usage |-> "low"]

(* get and keys scoped to one environment's partition. *)
env_keys(store, e) == IF e \in DOMAIN store THEN DOMAIN store[e] ELSE {}

env_getAnywhere(store, e, k) ==
    IF PartitionsOf(store, k) # {}
    THEN Some(store[CHOOSE p \in PartitionsOf(store, k) : TRUE][k].value)
    ELSE None

env_get(store, e, k) ==
    IF k \in env_keys(store, e) THEN Some(store[e][k].value) ELSE None

(* cluster.keys(): every key of every partition of this node. *)
cluster_keysDefaultOnly(store) == env_keys(store, base_env)

cluster_keys(store) == UNION {env_keys(store, e) : e \in DOMAIN store}

(* cluster.get(k): the value under k in whichever partition holds it, and  *)
(* the not-found value when none does; it does not raise.                  *)
cluster_get(store, k) ==
    IF PartitionsOf(store, k) = {}
    THEN [raised |-> "none", ret |-> None]
    ELSE [raised |-> "none",
          ret |-> env_get(store, CHOOSE e \in PartitionsOf(store, k) : TRUE, k)]

(* cluster.put(k, v, env=e): the object goes into the partition of e and   *)
(* leaves whichever other partition held the key.                          *)
cluster_putNoMove(store, k, v, e) ==
    [p \in DOMAIN store |->
        IF p = e THEN (k :> StoredObject(v)) @@ store[p] ELSE store[p]]

cluster_put(store, k, v, e) ==
    [p \in DOMAIN store |->
        IF p = e THEN (k :> StoredObject(v)) @@ store[p] ELSE Without(store[p], k)]

(* The partition of e, created empty when e has none yet. *)
WithPartition(store, e) ==
    IF e \in DOMAIN store THEN store ELSE (e :> <<>>) @@ store

WithServlet(procs, e) ==
    IF e \in DOMAIN procs THEN procs ELSE (e :> ServletProcess(e)) @@ procs

(* cluster.put_resource(resource, env=e): the resource is stored under its *)
(* name in the partition of e.                                             *)
cluster_put_resource(store, res, e) == cluster_put(WithPartition(store, e), res.v, res, e)

(* cluster.delete(key): an environment's key removes its partition with    *)
(* everything in it; the key itself is removed from the partition that     *)
(* holds it, whose other objects stay.                                     *)
DropPartition(store, key) ==
    IF key \in DOMAIN store THEN Without(store, key) ELSE store

cluster_deleteHost(store, key) ==
    [p \in DOMAIN DropPartition(store, key) |->
        IF key \in DOMAIN store[p] /\ store[p][key].resource_type = "Env"
        THEN [k \in {} |-> store[p][k]]
        ELSE Without(store[p], key)]

cluster_deleteKeyOnly(store, key) ==
    [p \in DOMAIN store |-> Without(store[p], key)]

cluster_delete(store, key) ==
    [p \in DOMAIN DropPartition(store, key) |-> Without(store[p], key)]

(* The servlets after delete(key): the process of a deleted environment    *)
(* ends with its partition.                                                *)
delete_servletKept(procs, key) == procs

delete_servlet(procs, key) ==
    IF key \in DOMAIN procs THEN Without(procs, key) ELSE procs

(* The configuration of the cluster as the server holds it. *)
ClusterConfig ==
    ("name" :> "rh-cluster") @@ ("resource_type" :> "cluster")
        @@ ("ips" :> "10.0.0.1") @@ ("creds" :> "ssh-secret")

(* One line of env_resource_mapping. *)
ResourceEntry(k, obj) ==
    [name |-> k, resource_type |-> obj.resource_type,
     active_function_calls |-> obj.active_function_calls]

env_resource_mapping(store) ==
    [e \in DOMAIN store |-> {ResourceEntry(k, store[e][k]) : k \in DOMAIN store[e]}]

(* cluster.status(): the snapshot, with the credentials taken out of the   *)
(* configuration.                                                          *)
status_configWithCreds(config) == config

status_config(config) == Without(config, "creds")

cluster_status(store, procs) ==
    [env_servlet_processes |-> procs,
     env_resource_mapping |-> env_resource_mapping(store),
     server_pid |-> "server",
     runhouse_version |-> "0.0.0",
     cluster_config |-> status_config(ClusterConfig)]

(* The registry of a started server: the default environment's partition   *)
(* and process, nothing stored.                                            *)
NoOp == [op |-> "none", key |-> "", env |-> "", value |-> StrValue(""),
         pre |-> (base_env :> <<>>), procs |-> (base_env :> ServletProcess(base_env))]

NoRegOps ==
    /\ object_store = (base_env :> <<>>)
    /\ servlets = (base_env :> ServletProcess(base_env))
    /\ reglast = NoOp

----------------------------------------------------------------------------
(* The state machine of one client and one target.                         *)

Init ==
    /\ \E b \in Builds :
          envs = [r \in Clients \cup {NewRef} |->
                    IF r = 1 THEN NewEnv(1, "a", b[1])
                    ELSE IF r = 2 THEN NewEnv(2, "b", b[1])
                    ELSE NewEnv(3, NoName, b[2])]
    /\ dicts = [d \in DictRefs |-> IF d = DefaultDict \/ d = NewDict THEN {} ELSE {<<"gpus", 1>>}]
    /\ installed_envs = {}
    /\ registry = {<<DefaultEnv.name, DefaultEnv>>}
    /\ environ = {}
    /\ hist = <<>>
    /\ thr = [t \in Threads |-> Idle]
    /\ NoSendCalls
    /\ NoRegOps
    /\ NoSendsBuilt
    /\ NoCmds
    /\ hw_up = FALSE
    /\ completed = {}
    /\ token = None

(* The state after a to() whose outcome is r. *)
ToApply(self, inp, r) ==
    /\ envs' = r.es
    /\ dicts' = r.ds
    /\ installed_envs' = r.installed
    /\ registry' = r.registry
    /\ environ' = r.environ
    /\ hist' = Append(hist,
          [op |-> "to", self |-> self, inp |-> inp,
           before |-> View(Deref(envs, dicts, self)),
           after |-> View(Deref(r.es, r.ds, self)),
           onnode |-> r.onnode,
           pre |-> installed_envs, post |-> r.installed,
           regpre |-> registry, regpost |-> r.registry,
           events |-> r.events, raised |-> r.raised, ret |-> r.ret])

(* The client calls self.to(system, node_idx, force_install). *)
To(self, inp) ==
    /\ Len(hist) < MaxOps
    /\ ToApply(self, inp, to(envs, dicts, installed_envs, registry, environ,
                             self, inp.system, inp.node_idx, inp.force, inp.failing))
    /\ UNCHANGED <<thr, completed>>
    /\ UNCHANGED sendvars
    /\ UNCHANGED storevars
    /\ UNCHANGED makevars
    /\ UNCHANGED cmdvars

(* The state after an install() on the node Env self whose outcome is r. *)
InstallApply(self, force, failing, r) ==
    /\ installed_envs' = r.installed
    /\ hist' = Append(hist,
          [op |-> "install", self |-> 0,
           inp |-> [system |-> "cluster", node_idx |-> None, force |-> force,
                    failing |-> failing],
           before |-> View(self), after |-> View(self),
           onnode |-> Some(self),
           pre |-> installed_envs, post |-> r.installed,
           regpre |-> registry, regpost |-> registry,
           events |-> r.events, raised |-> r.raised, ret |-> None])

(* install(force) is called on the Env registered under key on the node. *)
NodeInstall(key, force, failing) ==
    /\ Len(hist) < MaxOps
    /\ key \in Keys(registry)
    /\ InstallApply(DictGet(registry, key), force, failing,
                    install(DictGet(registry, key), force, installed_envs, failing))
    /\ UNCHANGED <<envs, dicts, registry, environ, thr, completed>>
    /\ UNCHANGED sendvars
    /\ UNCHANGED storevars
    /\ UNCHANGED makevars
    /\ UNCHANGED cmdvars

Next ==
    \/ \E self \in Clients, inp \in ToInputs : To(self, inp)
    \/ \E key \in {"a", "b", DefaultEnv.name}, force \in BOOLEAN, failing \in FailMenu :
          NodeInstall(key, force, failing)

Spec == Init /\ [][Next]_vars

----------------------------------------------------------------------------
(* Concurrent install() calls in one node process, one step per statement  *)
(* of Env.install.  Nothing in install() synchronises the calls, so the    *)
(* steps of different calls interleave freely.                             *)

(* The copy that to() of the client object self registers on the cluster:  *)
(* the deep copy with its requirements rebased (env.py:210-211).           *)
Sent(es, ds, self) ==
    Deref(Rebase(deepcopy(es, ds, self), _reqs_to(Deref(es, ds, self), "cluster")).es,
          Rebase(deepcopy(es, ds, self), _reqs_to(Deref(es, ds, self), "cluster")).ds,
          NewRef)

(* Two clients have sent their named Envs (put_resource, env.py:226) and   *)
(* the install calls of env.py:236 are about to arrive.                    *)
InitConc ==
    /\ \E b \in Builds :
          envs = [r \in Clients \cup {NewRef} |->
                    IF r = 1 THEN NewEnv(1, "a", b[1])
                    ELSE IF r = 2 THEN NewEnv(2, "b", b[1])
                    ELSE NewEnv(3, NoName, b[2])]
    /\ dicts = [d \in DictRefs |-> IF d = DefaultDict \/ d = NewDict THEN {} ELSE {<<"gpus", 1>>}]
    /\ installed_envs = {}
    /\ registry = PutResource(PutResource({<<DefaultEnv.name, DefaultEnv>>},
                                           Sent(envs, dicts, 1)),
                               Sent(envs, dicts, 2))
    /\ environ = {}
    /\ hist = <<>>
    /\ thr = [t \in Threads |-> Idle]
    /\ NoSendCalls
    /\ NoRegOps
    /\ NoSendsBuilt
    /\ NoCmds
    /\ hw_up = FALSE
    /\ completed = {}
    /\ token = None

SelfOf(t) == DictGet(registry, thr[t].key)

(* env.py:169-175: install(force) is entered on the Env under key. *)
Call(t, key, force) ==
    /\ thr[t].pc = "idle"
    /\ key \in Keys(registry)
    /\ thr' = [thr EXCEPT ![t] = [pc |-> "check", key |-> key, force |-> force, i |-> 0]]
    /\ UNCHANGED <<envs, dicts, installed_envs, registry, environ, hist, completed>>
    /\ UNCHANGED sendvars
    /\ UNCHANGED storevars
    /\ UNCHANGED makevars
    /\ UNCHANGED cmdvars

(* env.py:177: the cache test. *)
Check(t) ==
    /\ thr[t].pc = "check"
    /\ thr' = [thr EXCEPT ![t] =
                 IF AlreadyInstalled(installed_envs, InstallHash(SelfOf(t)), thr[t].force)
                 THEN [@ EXCEPT !.pc = "cached"] ELSE [@ EXCEPT !.pc = "mark"]]
    /\ UNCHANGED <<envs, dicts, installed_envs, registry, environ, hist, completed>>
    /\ UNCHANGED sendvars
    /\ UNCHANGED storevars
    /\ UNCHANGED makevars
    /\ UNCHANGED cmdvars

(* env.py:178-179: the hash was found: install() logs and returns. *)
Skip(t) ==
    /\ thr[t].pc = "cached"
    /\ thr' = [thr EXCEPT ![t] = Idle]
    /\ UNCHANGED <<envs, dicts, installed_envs, registry, environ, hist, completed>>
    /\ UNCHANGED sendvars
    /\ UNCHANGED storevars
    /\ UNCHANGED makevars
    /\ UNCHANGED cmdvars

(* env.py:180: the hash is recorded. *)
Mark(t) ==
    /\ thr[t].pc = "mark"
    /\ installed_envs' = DictSet(installed_envs, InstallHash(SelfOf(t)), SelfOf(t).name)
    /\ thr' = [thr EXCEPT ![t].pc = "reqs", ![t].i = 1]
    /\ UNCHANGED <<envs, dicts, registry, environ, hist, completed>>
    /\ UNCHANGED sendvars
    /\ UNCHANGED storevars
    /\ UNCHANGED makevars
    /\ UNCHANGED cmdvars

(* env.py:144-155: one iteration of the loop of _install_reqs; the         *)
(* installer returns (ok) or raises, and an unrecognised package raises.   *)
InstallReq(t, ok) ==
    /\ thr[t].pc = "reqs"
    /\ thr[t].i <= Len(reqs(SelfOf(t)))
    /\ thr' = [thr EXCEPT ![t] =
                 IF reqs(SelfOf(t))[thr[t].i].form \in {"str", "pkg"} /\ ok
                 THEN [@ EXCEPT !.i = @ + 1] ELSE Idle]
    /\ UNCHANGED <<envs, dicts, installed_envs, registry, environ, hist, completed>>
    /\ UNCHANGED sendvars
    /\ UNCHANGED storevars
    /\ UNCHANGED makevars
    /\ UNCHANGED cmdvars

(* env.py:182-183: _install_reqs returned, _run_setup_cmds starts. *)
ReqsDone(t) ==
    /\ thr[t].pc = "reqs"
    /\ thr[t].i > Len(reqs(SelfOf(t)))
    /\ thr' = [thr EXCEPT ![t].pc = "cmds", ![t].i = 1]
    /\ UNCHANGED <<envs, dicts, installed_envs, registry, environ, hist, completed>>
    /\ UNCHANGED sendvars
    /\ UNCHANGED storevars
    /\ UNCHANGED makevars
    /\ UNCHANGED cmdvars

(* env.py:163-167: one setup command runs. *)
RunCmd(t) ==
    /\ thr[t].pc = "cmds"
    /\ thr[t].i <= Len(WantedCmds(SelfOf(t)))
    /\ thr' = [thr EXCEPT ![t].i = @ + 1]
    /\ UNCHANGED <<envs, dicts, installed_envs, registry, environ, hist, completed>>
    /\ UNCHANGED sendvars
    /\ UNCHANGED storevars
    /\ UNCHANGED makevars
    /\ UNCHANGED cmdvars

(* env.py:183: install() returns. *)
Return(t) ==
    /\ thr[t].pc = "cmds"
    /\ thr[t].i > Len(WantedCmds(SelfOf(t)))
    /\ thr' = [thr EXCEPT ![t] = Idle]
    /\ completed' = completed \cup {InstallHash(SelfOf(t))}
    /\ UNCHANGED <<envs, dicts, installed_envs, registry, environ, hist>>
    /\ UNCHANGED sendvars
    /\ UNCHANGED storevars
    /\ UNCHANGED makevars
    /\ UNCHANGED cmdvars

NextConc ==
    \/ \E t \in Threads, key \in {"a", "b", DefaultEnv.name}, force \in BOOLEAN : Call(t, key, force)
    \/ \E t \in Threads : Check(t)
    \/ \E t \in Threads : Skip(t)
    \/ \E t \in Threads : Mark(t)
    \/ \E t \in Threads, ok \in BOOLEAN : InstallReq(t, ok)
    \/ \E t \in Threads : ReqsDone(t)
    \/ \E t \in Threads : RunCmd(t)
    \/ \E t \in Threads : Return(t)

SpecConc == InitConc /\ [][NextConc]_vars

----------------------------------------------------------------------------
(* Reading the history.                                                    *)

Calls == 1..Len(hist)
OfKind(events, t) == SelectSeq(events, LAMBDA e : e.t = t)
Xs(events) == [i \in 1..Len(events) |-> events[i].x]
Positions(events, ts) == {i \in 1..Len(events) : events[i].t \in ts}

(* install() ran on the node in call i: a to() of a named Env that got     *)
(* past the node index test, or a direct install.                          *)
RanInstall(i) == hist[i].onnode # None
NodeEnvOf(i) == hist[i].onnode[1]

(* Call i found its hash absent, installed everything and did not raise. *)
RealInstall(i) ==
    /\ RanInstall(i)
    /\ InstallHash(NodeEnvOf(i)) \notin Keys(hist[i].pre)
    /\ hist[i].raised = "none"

NoInstallEffects(i) ==
    /\ OfKind(hist[i].events, "pkg") = <<>>
    /\ OfKind(hist[i].events, "cmd") = <<>>
    /\ hist[i].post = hist[i].pre

----------------------------------------------------------------------------
(* The state machine of one client calling the methods of its Sends.       *)

MaxCalls == 2        \* calls of Send methods in one behaviour of SpecSend

InitSend ==
    /\ envs = [r \in Clients \cup {NewRef} |->
                 IF r = 1 THEN NewEnv(1, "a", ContentA)
                 ELSE IF r = 2 THEN NewEnv(2, "b", ContentA)
                 ELSE NewEnv(3, NoName, ContentC)]
    /\ dicts = [d \in DictRefs |-> IF d = DefaultDict \/ d = NewDict THEN {} ELSE {<<"gpus", 1>>}]
    /\ installed_envs = {}
    /\ registry = {<<DefaultEnv.name, DefaultEnv>>}
    /\ environ = {}
    /\ hist = <<>>
    /\ thr = [t \in Threads |-> Idle]
    /\ NoSendCalls
    /\ NoRegOps
    /\ NoSendsBuilt
    /\ NoCmds
    /\ hw_up = FALSE
    /\ completed = {}
    /\ token \in Tokens

(* What went out in a call: the x of its events of kind t, tagged with the *)
(* Send that made the call.                                                *)
Out(self, events, t) ==
    [k \in 1..Len(OfKind(events, t)) |-> [from |-> self, msg |-> OfKind(events, t)[k].x]]

(* The state after the call op of the Send self whose outcome is r. *)
SendApply(op, self, inp, r) ==
    /\ rpc' = rpc \o Out(self, r.events, "grpc")
    /\ http' = http \o Out(self, r.events, "post")
    /\ ray' = (ray \/ OfKind(r.events, "ray_init") # <<>>)
    /\ last' = [n |-> last.n + 1, op |-> op, self |-> self, inp |-> inp,
                events |-> r.events, raised |-> r.raised, ret |-> r.ret]
    /\ UNCHANGED <<sends, token>>
    /\ UNCHANGED envvars
    /\ UNCHANGED storevars
    /\ UNCHANGED makevars
    /\ UNCHANGED cmdvars

(* The client calls a method of the Send self; reply is what call_grpc    *)
(* does and hreply what requests.post does, should the method get there.   *)
DoCall(self, inp, reply, hreply) ==
    /\ last.n < MaxCalls
    /\ SendApply("call", self, inp,
                 __call__(sends[self], token, inp.args, inp.kwargs, reply, hreply))

DoRepeat(self, inp, reply) ==
    /\ last.n < MaxCalls
    /\ SendApply("repeat", self, inp,
                 repeat(sends[self], inp.num_repeats, inp.args, inp.kwargs, reply))

DoMap(self, inp, reply) ==
    /\ last.n < MaxCalls
    /\ SendApply("map", self, inp, map(sends[self], inp.args, inp.kwargs, reply))

DoStarmap(self, inp, reply) ==
    /\ last.n < MaxCalls
    /\ SendApply("starmap", self, inp, starmap(sends[self], inp.args, inp.kwargs, reply))

DoEnqueue(self, inp, reply) ==
    /\ last.n < MaxCalls
    /\ SendApply("enqueue", self, inp, enqueue(sends[self], inp.args, inp.kwargs, reply))

DoRemote(self, inp, reply) ==
    /\ last.n < MaxCalls
    /\ SendApply("remote", self, inp, remote(sends[self], inp.args, inp.kwargs, reply))

DoGet(self, inp, reply) ==
    /\ last.n < MaxCalls
    /\ SendApply("get", self, inp, get(sends[self], inp.args, inp.is_list, reply))

NextSend ==
    \/ \E self \in SendRefs, inp \in CallInputs, reply \in GrpcReplies, hreply \in HttpReplies :
          DoCall(self, inp, reply, hreply)
    \/ \E self \in SendRefs, inp \in RepeatInputs, reply \in GrpcReplies : DoRepeat(self, inp, reply)
    \/ \E self \in SendRefs, inp \in MapInputs, reply \in GrpcReplies : DoMap(self, inp, reply)
    \/ \E self \in SendRefs, inp \in StarmapInputs, reply \in GrpcReplies : DoStarmap(self, inp, reply)
    \/ \E self \in SendRefs, inp \in CallInputs, reply \in GrpcReplies : DoEnqueue(self, inp, reply)
    \/ \E self \in SendRefs, inp \in CallInputs, reply \in GrpcReplies : DoRemote(self, inp, reply)
    \/ \E self \in SendRefs, inp \in GetInputs, reply \in GrpcReplies : DoGet(self, inp, reply)

SpecSend == InitSend /\ [][NextSend]_vars

(* Reading the latest call of a Send method. *)
Called == last.op # "none"
Me == sends[last.self]
SshAccess == Me.access \in {Write, Read}
Did_(t) == OfKind(last.events, t)

----------------------------------------------------------------------------
(* SpecReg: the client drives the registry of one target with to(), put,   *)
(* put_resource and delete, and calls stored objects; get, keys and status *)
(* read the state the operations leave.                                    *)

InitReg ==
    /\ envs = [r \in Clients \cup {NewRef} |->
                 IF r = 1 THEN NewEnv(1, "a", ContentA)
                 ELSE IF r = 2 THEN NewEnv(2, "b", ContentA)
                 ELSE NewEnv(3, NoName, ContentC)]
    /\ dicts = [d \in DictRefs |-> IF d = DefaultDict \/ d = NewDict THEN {} ELSE {<<"gpus", 1>>}]
    /\ installed_envs = {}
    /\ registry = {<<DefaultEnv.name, DefaultEnv>>}
    /\ environ = {}
    /\ hist = <<>>
    /\ thr = [t \in Threads |-> Idle]
    /\ completed = {}
    /\ NoSendCalls
    /\ token = None
    /\ NoRegOps
    /\ NoSendsBuilt
    /\ NoCmds
    /\ hw_up = FALSE

(* The state after the operation op that leaves store and procs. *)
RegApply(op, key, env, value, store, procs) ==
    /\ object_store' = store
    /\ servlets' = procs
    /\ reglast' = [op |-> op, key |-> key, env |-> env, value |-> value,
                   pre |-> object_store, procs |-> servlets]
    /\ UNCHANGED envvars
    /\ UNCHANGED sendvars
    /\ UNCHANGED makevars
    /\ UNCHANGED cmdvars

(* rh.env(name=name, working_dir="./").to(cluster): the environment gets   *)
(* its process and partition and is stored there under its name.           *)
RegTo(name) ==
    /\ name # base_env
    /\ RegApply("to", name, name, EnvResource(name),
                cluster_put_resource(object_store, EnvResource(name), name),
                WithServlet(servlets, name))

(* cluster.put(k, v, env=e) for a registered e (the default one when the   *)
(* client names none).                                                     *)
RegPut(k, v, e) ==
    /\ e \in DOMAIN object_store
    /\ RegApply("put", k, e, StrValue(v),
                cluster_put(object_store, k, StrValue(v), e), servlets)

(* cluster.put_resource(env3, env=e): an environment that was never sent   *)
(* is stored as a resource in the partition of e.                          *)
RegPutResource(e) ==
    /\ e \in DOMAIN object_store
    /\ RegApply("put_resource", StoredEnv, e, EnvResource(StoredEnv),
                cluster_put_resource(object_store, EnvResource(StoredEnv), e), servlets)

(* cluster.delete(key) of a key or an environment the target holds. *)
RegDelete(key) ==
    /\ key \in cluster_keys(object_store) \cup (DOMAIN object_store \ {base_env})
    /\ RegApply("delete", key, "", StrValue(""),
                cluster_delete(object_store, key), delete_servlet(servlets, key))

(* A call of the object under k starts in the process of its partition,    *)
(* and later returns.                                                      *)
SetCalls(store, k, calls) ==
    [p \in DOMAIN store |->
        IF k \in DOMAIN store[p]
        THEN [store[p] EXCEPT ![k].active_function_calls = calls]
        ELSE store[p]]

RegCallBegin(k) ==
    /\ k \in cluster_keys(object_store)
    /\ \A p \in PartitionsOf(object_store, k) : object_store[p][k].active_function_calls = <<>>
    /\ RegApply("call", k, "", StrValue(""), SetCalls(object_store, k, <<"run1">>), servlets)

RegCallEnd(k) ==
    /\ k \in cluster_keys(object_store)
    /\ \E p \in PartitionsOf(object_store, k) : object_store[p][k].active_function_calls # <<>>
    /\ RegApply("return", k, "", StrValue(""), SetCalls(object_store, k, <<>>), servlets)

NextReg ==
    \/ \E name \in NamedEnvs : RegTo(name)
    \/ \E k \in ObjectKeys, v \in ObjectValues, e \in NamedEnvs \cup {base_env} : RegPut(k, v, e)
    \/ \E e \in NamedEnvs \cup {base_env} : RegPutResource(e)
    \/ \E key \in ObjectKeys \cup NamedEnvs \cup {StoredEnv} : RegDelete(key)
    \/ \E k \in ObjectKeys : RegCallBegin(k)
    \/ \E k \in ObjectKeys : RegCallEnd(k)

SpecReg == InitReg /\ [][NextReg]_vars

(* What the client reads after the latest operation. *)
Get(k) == cluster_get(object_store, k)
Status == cluster_status(object_store, servlets)
Partitions == DOMAIN object_store
WasIn(e) == IF e \in DOMAIN reglast.pre THEN DOMAIN reglast.pre[e] ELSE {}

----------------------------------------------------------------------------
(* SpecMake: the client builds Sends, with the constructor and with the    *)
(* send() factory, in one working directory and against one hardware.      *)

MaxBuilt == 2        \* Sends built in one behaviour of SpecMake

InitMake ==
    /\ envs = [r \in Clients \cup {NewRef} |->
                 IF r = 1 THEN NewEnv(1, "a", ContentA)
                 ELSE IF r = 2 THEN NewEnv(2, "b", ContentA)
                 ELSE NewEnv(3, NoName, ContentC)]
    /\ dicts = [d \in DictRefs |-> IF d = DefaultDict \/ d = NewDict THEN {} ELSE {<<"gpus", 1>>}]
    /\ installed_envs = {}
    /\ registry = {<<DefaultEnv.name, DefaultEnv>>}
    /\ environ = {}
    /\ hist = <<>>
    /\ thr = [t \in Threads |-> Idle]
    /\ completed = {}
    /\ NoSendCalls
    /\ token = None
    /\ NoRegOps
    /\ NoSendsBuilt
    /\ NoCmds
    /\ hw_up \in BOOLEAN

(* The state after a construction whose outcome is r. *)
MakeApply(op, fn, name, dryrun, r) ==
    /\ cwd_files' = r.files
    /\ hw_up' = (hw_up \/ OfKind(r.ctor, "up") # <<>>)
    /\ built' = Append(built,
          [op |-> op, fn |-> fn, name |-> name, dryrun |-> dryrun, up |-> hw_up,
           stored |-> r.stored, written |-> r.written, raised |-> r.raised,
           self |-> r.self,
           ctor |-> r.ctor, events |-> r.events])
    /\ UNCHANGED envvars
    /\ UNCHANGED sendvars
    /\ UNCHANGED storevars
    /\ UNCHANGED cmdvars

(* Send(fn_pointers, hardware, name, reqs, dryrun=dryrun, access=access) *)
Construct(name, reqs_, dryrun, access) ==
    /\ Len(built) < MaxBuilt
    /\ LET made == Send__init__(FnPointers, "rh-cluster", name, reqs_, dryrun, access, hw_up)
       IN  MakeApply("init", NoFn, name, dryrun,
                     [files |-> cwd_files, stored |-> load_config(NoName),
                      written |-> None, raised |-> None,
                      self |-> Some(made.self), ctor |-> made.events,
                      events |-> made.events])

(* send(fn, name=name, dryrun=dryrun, load_secrets=..., serialize_notebook_fn=...) *)
Factory(fn, name, dryrun, load_secrets, serialize) ==
    /\ Len(built) < MaxBuilt
    /\ MakeApply("send", fn, name, dryrun,
                 send(fn, name, None, dryrun, load_secrets, serialize, cwd_files, hw_up))

Fns == {NoFn, FileFn, NotebookF, NotebookG, LambdaFn}

NextMake ==
    \/ \E name \in {NoName, "a"}, reqs_ \in {None, Some(<<"numpy">>)}, dryrun \in BOOLEAN,
          access \in {None, Some(Read), Some(Proxy)} :
          Construct(name, reqs_, dryrun, access)
    \/ \E fn \in Fns, name \in {NoName, "a", "b"}, dryrun \in BOOLEAN :
          Factory(fn, name, dryrun, fn = FileFn, fn = NotebookG)

SpecMake == InitMake /\ [][NextMake]_vars

(* The constructions that returned a Send, and the Send. *)
Builds_ == 1..Len(built)
Made(i) == built[i].self # None
SendOf(i) == built[i].self[1]
FromNotebook(i) == built[i].op = "send" /\ built[i].fn # NoFn /\ InNotebook(built[i].fn)

----------------------------------------------------------------------------
(* C1: when install(force=False) runs twice on one node for the same Env   *)
(* content (directly or through to() of the same named Env) and the first  *)
(* run was a real install that returned, the two calls together invoke     *)
(* each package installer and each setup command exactly once, and the     *)
(* second call invokes none and leaves installed_envs unchanged.           *)
C1_IdempotentInstall ==
    \A i \in Calls, j \in Calls :
        (/\ i < j
         /\ RealInstall(i) /\ RanInstall(j)
         /\ NodeEnvOf(i) = NodeEnvOf(j)
         /\ ~hist[i].inp.force /\ ~hist[j].inp.force)
        => /\ Xs(OfKind(hist[i].events \o hist[j].events, "pkg")) = WantedPkgs(NodeEnvOf(i))
           /\ Xs(OfKind(hist[i].events \o hist[j].events, "cmd")) = WantedCmds(NodeEnvOf(i))
           /\ NoInstallEffects(j)
           /\ hist[j].raised = "none"

C1_Witness ==
    \E i \in Calls, j \in Calls :
        /\ i < j
        /\ RealInstall(i) /\ RanInstall(j)
        /\ NodeEnvOf(i) = NodeEnvOf(j)
        /\ ~hist[i].inp.force /\ ~hist[j].inp.force
        /\ hist[i].op = "to" /\ hist[j].op = "to"
        /\ Len(OfKind(hist[i].events, "pkg")) = 3
        /\ Len(OfKind(hist[i].events, "cmd")) = 2

(* C2: when a package installer or a setup command fails during install(), *)
(* the content hash is absent from installed_envs afterwards, and a later  *)
(* install(force=False) of the same content installs in full again.        *)
InstallFailed(i) ==
    /\ RanInstall(i)
    /\ \/ hist[i].raised \in {InstallError, NotRecognized}
       \/ \E k \in 1..Len(hist[i].events) : ~hist[i].events[k].ok

C2_NoPartialSuccessCaching ==
    \A i \in Calls :
        InstallFailed(i)
        => /\ InstallHash(NodeEnvOf(i)) \notin Keys(hist[i].post)
           /\ \A j \in Calls :
                 (j = i + 1 /\ RanInstall(j) /\ NodeEnvOf(j) = NodeEnvOf(i)
                    /\ ~hist[j].inp.force)
                 => OfKind(hist[j].events, "pkg") # <<>>

(* C3: two Envs that differ only in their name have the same content hash, *)
(* so once one is installed on the node, install(force=False) of the other *)
(* invokes no package installer and no setup command.                      *)
C3_NameExcludedFromHash ==
    \A i \in Calls, j \in Calls :
        (/\ i < j
         /\ RealInstall(i) /\ RanInstall(j)
         /\ [NodeEnvOf(i) EXCEPT !.name = "x"] = [NodeEnvOf(j) EXCEPT !.name = "x"]
         /\ ~hist[j].inp.force)
        => /\ InstallHash(NodeEnvOf(i)) = InstallHash(NodeEnvOf(j))
           /\ OfKind(hist[j].events, "pkg") = <<>>
           /\ OfKind(hist[j].events, "cmd") = <<>>

(* C5: install is fail-fast.  When the installer of a requirement raises, *)
(* or a requirement is not a recognised package, the call raises, nothing  *)
(* after that requirement is installed and no setup command runs.          *)
C5_FailFast ==
    \A i \in Calls :
        LET ev == hist[i].events
            pk == OfKind(ev, "pkg")
            real == RanInstall(i)
                    /\ (hist[i].inp.force \/ InstallHash(NodeEnvOf(i)) \notin Keys(hist[i].pre))
        IN  /\ (\E k \in 1..Len(pk) : ~pk[k].ok)
               => /\ hist[i].raised = InstallError
                  /\ \A k \in 1..Len(pk) : ~pk[k].ok => k = Len(pk)
                  /\ OfKind(ev, "cmd") = <<>>
            /\ hist[i].raised = NotRecognized => OfKind(ev, "cmd") = <<>>
            /\ (real /\ hist[i].raised = InstallError)
               => /\ Xs(pk) = SubSeq(WantedPkgs(NodeEnvOf(i)), 1, Len(pk))
                  /\ pk[Len(pk)].x \in hist[i].inp.failing
            /\ (real /\ hist[i].raised = NotRecognized)
               => /\ Xs(pk) = SubSeq(WantedPkgs(NodeEnvOf(i)), 1, Len(pk))
                  /\ reqs(NodeEnvOf(i))[Len(pk) + 1].form \notin {"str", "pkg"}
            /\ (real /\ hist[i].raised = "none")
               => Xs(pk) = WantedPkgs(NodeEnvOf(i))

C5_Witness ==
    \E i \in Calls, j \in Calls :
        /\ hist[i].raised = InstallError
        /\ hist[i].events # <<>>
        /\ hist[i].events[Len(hist[i].events)] = Event("pkg", "numpy", FALSE)
        /\ Len(hist[i].before.reqs) > Len(OfKind(hist[i].events, "pkg"))
        /\ hist[j].raised = NotRecognized
        /\ RanInstall(j) /\ WantedCmds(NodeEnvOf(j)) # <<>>
        /\ Len(OfKind(hist[j].events, "pkg")) = 1

(* C6: the package installers run in declared order with the working       *)
(* directory last, the setup commands run in declared order, and no setup  *)
(* command runs before a package install of the same call.                 *)
C6_InstallOrder ==
    \A i \in Calls :
        LET ev == hist[i].events
            real == RanInstall(i) /\ hist[i].raised = "none"
                    /\ (hist[i].inp.force \/ InstallHash(NodeEnvOf(i)) \notin Keys(hist[i].pre))
            anon == hist[i].op = "to" /\ hist[i].inp.system = "cluster"
                    /\ ~RanInstall(i) /\ hist[i].ret # None
        IN  /\ \A p \in Positions(ev, {"pkg"}), c \in Positions(ev, {"cmd"}) : p < c
            /\ real => /\ Xs(OfKind(ev, "pkg")) = WantedPkgs(NodeEnvOf(i))
                       /\ Xs(OfKind(ev, "cmd")) = WantedCmds(NodeEnvOf(i))
            /\ (anon /\ WantedPkgs(hist[i].ret[1]) # <<>>)
               => Xs(OfKind(ev, "pkg")) = WantedPkgs(hist[i].ret[1])
            /\ (anon /\ WantedCmds(hist[i].ret[1]) # <<>>)
               => Xs(OfKind(ev, "cmd")) = WantedCmds(hist[i].ret[1])

C6_Witness ==
    \E i \in Calls :
        /\ RanInstall(i) /\ hist[i].raised = "none"
        /\ NodeEnvOf(i).working_dir # None
        /\ Xs(OfKind(hist[i].events, "pkg")) = <<"numpy", "mypkg", "./">>
        /\ Xs(OfKind(hist[i].events, "cmd")) = <<"c1", "c2">>

(* C7: copy-on-send.  E.to(T) leaves E's reqs, working_dir, secrets and    *)
(* compute as they were, with or without a node index, whether the call    *)
(* returns or raises.                                                      *)
C7_CopyOnSend ==
    \A i \in Calls : hist[i].op = "to" => hist[i].after = hist[i].before

C7_Witness ==
    \E i \in Calls, j \in Calls :
        /\ hist[i].op = "to" /\ hist[i].inp.node_idx # None /\ hist[i].ret # None
        /\ hist[i].before.compute # None
        /\ "node_idx" \notin Keys(hist[i].before.compute[1])
        /\ "node_idx" \in Keys(hist[i].ret[1].compute[1])
        /\ hist[i].before.working_dir # hist[i].ret[1].working_dir
        /\ hist[j].op = "to" /\ hist[j].raised # "none"

(* C8: to(target, node_idx=k) on a cluster of n nodes raises the           *)
(* configuration error when k >= n; when 0 <= k < n it does not, and       *)
(* unless an install fails it returns an Env whose compute records         *)
(* node_idx = k.                                                           *)
C8_NodeIdxBounds ==
    \A i \in Calls :
        (hist[i].op = "to" /\ hist[i].inp.system = "cluster" /\ hist[i].inp.node_idx # None)
        => LET k == hist[i].inp.node_idx[1]
           IN  /\ k >= NumNodes => hist[i].raised = NodeIdxError /\ hist[i].ret = None
               /\ (0 <= k /\ k < NumNodes)
                  => /\ hist[i].raised # NodeIdxError
                     /\ hist[i].raised \notin {InstallError, NotRecognized}
                        => /\ hist[i].ret # None
                           /\ hist[i].ret[1].compute # None
                           /\ <<"node_idx", k>> \in hist[i].ret[1].compute[1]

C8_Witness ==
    \E i \in Calls, j \in Calls :
        /\ hist[i].op = "to" /\ hist[i].inp.node_idx = Some(NumNodes)
        /\ hist[i].raised = NodeIdxError
        /\ hist[j].op = "to" /\ hist[j].inp.node_idx = Some(NumNodes - 1)
        /\ hist[j].ret # None
        /\ <<"node_idx", NumNodes - 1>> \in hist[j].ret[1].compute[1]

(* C9: every node index recorded in the compute request of an Env that     *)
(* to() returns lies in 0..n-1, and a supplied index outside that range,   *)
(* a negative one included, makes to() raise.                              *)
C9_NodeIdxInRange ==
    \A i \in Calls :
        (hist[i].op = "to" /\ hist[i].inp.system = "cluster")
        => /\ (hist[i].ret # None /\ hist[i].ret[1].compute # None)
              => \A p \in hist[i].ret[1].compute[1] :
                    p[1] = "node_idx" => (0 <= p[2] /\ p[2] < NumNodes)
           /\ (hist[i].inp.node_idx # None
               /\ ~(0 <= hist[i].inp.node_idx[1] /\ hist[i].inp.node_idx[1] < NumNodes))
              => hist[i].raised = NodeIdxError /\ hist[i].ret = None

(* C10: in a to() on a cluster the copy is registered first, then the      *)
(* environment variables are set, then the install runs (requirements      *)
(* before setup commands), and the secrets are migrated last; when the     *)
(* install raises no secret is migrated.                                   *)
Before(ev, ts1, ts2) == \A p \in Positions(ev, ts1), q \in Positions(ev, ts2) : p < q

C10_ToStepOrder ==
    \A i \in Calls :
        (hist[i].op = "to" /\ hist[i].inp.system = "cluster")
        => LET ev == hist[i].events
           IN  /\ Before(ev, {"put"}, {"setenv", "pkg", "cmd", "secret"})
               /\ Before(ev, {"setenv"}, {"pkg", "cmd", "secret"})
               /\ Before(ev, {"pkg"}, {"cmd", "secret"})
               /\ Before(ev, {"cmd"}, {"secret"})
               /\ hist[i].raised # "none" => OfKind(ev, "secret") = <<>>

C10_Witness ==
    \E i \in Calls, j \in Calls :
        /\ hist[i].op = "to" /\ hist[i].raised = "none"
        /\ \A t \in {"put", "setenv", "pkg", "cmd", "secret"} :
              Positions(hist[i].events, {t}) # {}
        /\ hist[j].op = "to" /\ hist[j].raised = InstallError
        /\ hist[j].before.secrets # <<>>

(* C4: two concurrent install(force=False) calls for one content hash on  *)
(* one node never both run the install body (package installs and setup    *)
(* commands) of that hash at the same time.                                *)
Installing(t) == thr[t].pc \in {"reqs", "cmds"}

C4_CriticalSectionPerHash ==
    \A t1 \in Threads, t2 \in Threads :
        (/\ t1 # t2
         /\ Installing(t1) /\ Installing(t2)
         /\ ~thr[t1].force /\ ~thr[t2].force)
        => InstallHash(SelfOf(t1)) # InstallHash(SelfOf(t2))

----------------------------------------------------------------------------
(* C11: after a to() of a named Env on a cluster returns, the cluster's    *)
(* registry has the Env's name among its keys (one key more than before,   *)
(* at most) and holds under it the Env that was sent, and the put and the  *)
(* environment variables were addressed to that name; a to() of an         *)
(* anonymous Env leaves the registry as it was, puts nothing, and          *)
(* addresses the default Env's key, which the registry has.                *)
SentOk(i) ==
    /\ hist[i].op = "to"
    /\ hist[i].inp.system = "cluster"
    /\ hist[i].raised = "none"

AddressedTo(i, key) ==
    \A k \in Positions(hist[i].events, {"put", "setenv"}) : hist[i].events[k].x = key

C11_RegisteredUnderKey ==
    \A i \in Calls :
        SentOk(i)
        => IF hist[i].ret[1].name # NoName
           THEN /\ hist[i].ret[1].name \in Keys(hist[i].regpost)
                /\ Keys(hist[i].regpost) = Keys(hist[i].regpre) \cup {hist[i].ret[1].name}
                /\ DictGet(hist[i].regpost, hist[i].ret[1].name).name = hist[i].ret[1].name
                /\ reqs(DictGet(hist[i].regpost, hist[i].ret[1].name)) = reqs(hist[i].ret[1])
                /\ DictGet(hist[i].regpost, hist[i].ret[1].name).setup_cmds
                      = hist[i].ret[1].setup_cmds
                /\ Xs(OfKind(hist[i].events, "put")) = <<hist[i].ret[1].name>>
                /\ AddressedTo(i, hist[i].ret[1].name)
           ELSE /\ hist[i].regpost = hist[i].regpre
                /\ OfKind(hist[i].events, "put") = <<>>
                /\ DefaultEnv.name \in Keys(hist[i].regpost)
                /\ AddressedTo(i, DefaultEnv.name)

C11_Witness ==
    \E i \in Calls, j \in Calls :
        /\ SentOk(i) /\ hist[i].ret[1].name = "a"
        /\ "a" \notin Keys(hist[i].regpre)
        /\ OfKind(hist[i].events, "setenv") # <<>>
        /\ SentOk(j) /\ hist[j].ret[1].name = NoName
        /\ OfKind(hist[j].events, "setenv") # <<>>
        /\ Keys(hist[j].regpre) = {DefaultEnv.name, "a"}

(* C12: a to() of an anonymous Env on a cluster puts no Env in the         *)
(* registry, invokes the installers of the sent Env's own requirements     *)
(* and no others (all of them when nothing raises), runs the sent Env's    *)
(* own setup commands and no others, and when the sent Env has neither     *)
(* requirements nor setup commands it invokes no installer and no command. *)
AnonymousTo(i) ==
    /\ hist[i].op = "to"
    /\ hist[i].inp.system = "cluster"
    /\ envs[hist[i].self].name = NoName
    /\ hist[i].raised # NodeIdxError

IsPrefix(s, t) == Len(s) <= Len(t) /\ s = SubSeq(t, 1, Len(s))

C12_AnonymousInstallsOwn ==
    \A i \in Calls :
        AnonymousTo(i)
        => /\ hist[i].regpost = hist[i].regpre
           /\ OfKind(hist[i].events, "put") = <<>>
           /\ IsPrefix(Xs(OfKind(hist[i].events, "pkg")), WantedPkgs(envs[hist[i].self]))
           /\ IsPrefix(Xs(OfKind(hist[i].events, "cmd")), WantedCmds(envs[hist[i].self]))
           /\ hist[i].raised = "none"
              => /\ Xs(OfKind(hist[i].events, "pkg")) = WantedPkgs(envs[hist[i].self])
                 /\ Xs(OfKind(hist[i].events, "cmd")) = WantedCmds(envs[hist[i].self])
           /\ (WantedPkgs(envs[hist[i].self]) = <<>> /\ WantedCmds(envs[hist[i].self]) = <<>>)
              => /\ OfKind(hist[i].events, "pkg") = <<>>
                 /\ OfKind(hist[i].events, "cmd") = <<>>

----------------------------------------------------------------------------
(* C13: when a call method of a Send with write or read access receives a  *)
(* response envelope [res, fn_exception, fn_traceback], the envelope       *)
(* decides the outcome: with a non-null fn_exception the exception and the *)
(* traceback are logged, that very exception (type and value) is raised    *)
(* and nothing is returned; otherwise nothing is logged as an error,       *)
(* nothing is raised and res is returned as it came.                       *)
GotResponse == Called /\ SshAccess /\ Did_("resp") # <<>>
Response == pickle_loads(Did_("resp")[1].x)

C13_OutcomeFromEnvelope ==
    GotResponse
    => /\ Len(Did_("resp")) = 1
       /\ IF Response[2] # None
          THEN /\ last.raised = Response[2]
               /\ last.ret = None
               /\ Did_("error") = <<Did("error", Response[2]), Did("error", Response[3])>>
               /\ \A p \in Positions(last.events, {"resp"}),
                     q \in Positions(last.events, {"error"}) : p < q
          ELSE /\ last.raised = None
               /\ last.ret = Some(Response[1])
               /\ Did_("error") = <<>>

C13_Witness ==
    /\ GotResponse
    /\ last.op = "map"
    /\ Response[2] = Some(Exc("ValueError", <<"M">>))
    /\ last.raised = Some(Exc("ValueError", <<"M">>))
    /\ Len(Did_("error")) = 2

(* C14: every call method (call, repeat, map, starmap, enqueue, remote,    *)
(* get) of a Send with write or read access whose fn_pointers are None     *)
(* raises the RuntimeError that names the missing pointers, returns        *)
(* nothing, and sends nothing over the RPC channel or by HTTP.             *)
NothingSent == /\ Did_("grpc") = <<>>
               /\ Did_("post") = <<>>

C14_NoPointersNoCall ==
    (Called /\ SshAccess /\ Me.fn_pointers = None)
    => /\ last.raised = Some(NoFnPointers(Me))
       /\ last.ret = None
       /\ NothingSent
       /\ \A k \in 1..Len(rpc) : rpc[k].from # last.self

C14_Witness ==
    /\ Called /\ SshAccess /\ Me.fn_pointers = None
    /\ last.op = "remote"
    /\ last.raised # None
    /\ last.n = MaxCalls
    /\ rpc # <<>>

(* C15: on a Send with proxy access each of repeat, map, starmap, enqueue, *)
(* remote and get raises NotImplementedError, returns nothing, and neither *)
(* hands an envelope to the RPC channel nor posts an HTTP request.         *)
GatedOps == {"repeat", "map", "starmap", "enqueue", "remote", "get"}

C15_ProxyGated ==
    (Called /\ Me.access = Proxy /\ last.op \in GatedOps)
    => /\ last.raised # None
       /\ last.raised[1].type = "NotImplementedError"
       /\ last.ret = None
       /\ NothingSent
       /\ Did_("resp") = <<>> /\ Did_("httpresp") = <<>>

C15_Witness ==
    /\ Called /\ Me.access = Proxy /\ last.op = "get"
    /\ last.raised = Some(NotImplementedError("Send.get"))
    /\ token = Some("tok")

(* C16: whatever calls have been made, every envelope that went over the   *)
(* RPC channel came from a Send with write or read access, every HTTP      *)
(* request came from a Send with proxy access, and a call of a Send with   *)
(* proxy access hands nothing to the RPC channel.                          *)
C16_ProxyNeverRpc ==
    /\ \A k \in 1..Len(rpc) : sends[rpc[k].from].access \in {Write, Read}
    /\ \A k \in 1..Len(http) : sends[http[k].from].access = Proxy
    /\ (Called /\ Me.access = Proxy)
       => /\ Did_("grpc") = <<>>
          /\ Did_("resp") = <<>> /\ Did_("rpcfail") = <<>>

C16_Witness ==
    /\ Called /\ Me.access = Proxy /\ last.op = "call"
    /\ Len(Did_("post")) = 1
    /\ last.ret # None
    /\ rpc # <<>>
    /\ http # <<>>

(* C17: a call of a Send with proxy access while no token is saved (None   *)
(* or empty) raises the ValueError that asks for the token, returns        *)
(* nothing and posts no HTTP request, neither then nor in a retry.         *)
TokenSaved == token # None /\ token # Some("")

C17_NoTokenNoRequest ==
    /\ (Called /\ Me.access = Proxy /\ last.op = "call" /\ ~TokenSaved)
       => /\ last.raised = Some(NoToken)
          /\ last.ret = None
          /\ Did_("post") = <<>>
          /\ Did_("grpc") = <<>>
    /\ ~TokenSaved => http = <<>>

C17_Witness ==
    /\ Called /\ Me.access = Proxy /\ last.op = "call"
    /\ token = None
    /\ last.raised = Some(NoToken)
    /\ last.n = MaxCalls

(* C18: a call of a Send with proxy access while a token is saved posts    *)
(* exactly one HTTP request; when the response has status 200 the call     *)
(* returns the decoded body and raises nothing, and for every other status *)
(* it returns nothing and raises the Exception whose detail is the body of *)
(* the response.                                                           *)
C18_ProxyCallResult ==
    (Called /\ Me.access = Proxy /\ last.op = "call" /\ TokenSaved)
    => /\ Len(Did_("post")) = 1
       /\ Did_("grpc") = <<>>
       /\ \A k \in 1..Len(Did_("httpresp")) :
             IF Did_("httpresp")[k].x.status_code = 200
             THEN /\ last.raised = None
                  /\ last.ret = Some(Did_("httpresp")[k].x.content.text)
             ELSE /\ last.raised = Some(NotOk(Did_("httpresp")[k].x.content.text))
                  /\ last.ret = None

(* C19: when call_grpc raises in a call method of a Send with write or     *)
(* read access, no response envelope is read, the call returns nothing and *)
(* raises what call_grpc raised, and nothing is logged as an error inside  *)
(* the Send; an exception taken from a response envelope is always logged  *)
(* so, which tells the two failures apart.                                 *)
TransportFailed == Called /\ SshAccess /\ Did_("rpcfail") # <<>>

C19_TransportErrorSurfaces ==
    /\ TransportFailed
       => /\ last.raised = Did_("rpcfail")[1].x
          /\ last.ret = None
          /\ Did_("resp") = <<>>
          /\ Did_("error") = <<>>
    /\ (GotResponse /\ last.raised # None)
       => /\ Did_("rpcfail") = <<>>
          /\ Did_("error") # <<>>

C19_Witness ==
    /\ TransportFailed
    /\ last.op = "starmap"
    /\ last.raised = Some(RpcError)
    /\ Len(Did_("grpc")) = 1

(* C20: every call method of a Send with write or read access that has fn  *)
(* pointers hands exactly one envelope to the RPC channel; its first three *)
(* fields are the Send's fn pointers, its fourth is the call kind of the   *)
(* method (enqueue sends queue, every other method its own name), then     *)
(* come the arguments and the keyword arguments.  repeat and map send one  *)
(* envelope, not one per repetition or element.                            *)
CallKind(op) == IF op = "enqueue" THEN "queue" ELSE op

Request == pickle_loads(Did_("grpc")[1].x)

C20_OneEnvelope ==
    (Called /\ SshAccess /\ Me.fn_pointers # None)
    => /\ Len(Did_("grpc")) = 1
       /\ Did_("post") = <<>>
       /\ rpc # <<>>
       /\ rpc[Len(rpc)] = [from |-> last.self, msg |-> Did_("grpc")[1].x]
       /\ Len(Request) = 6
       /\ <<Request[1], Request[2], Request[3]>> = Me.fn_pointers[1]
       /\ Request[4] = CallKind(last.op)
       /\ last.op \in {"call", "enqueue", "remote", "map", "starmap"}
          => Request[5] = last.inp.args /\ Request[6] = last.inp.kwargs
       /\ last.op = "repeat"
          => Request[5] = <<last.inp.num_repeats, last.inp.args>>
       /\ last.op = "get" => Len(Request[5]) >= 1

C20_Witness ==
    /\ Called /\ SshAccess /\ Me.fn_pointers = Some(NotebookFnPointers)
    /\ last.op = "repeat"
    /\ last.inp.num_repeats = 3
    /\ Len(Did_("grpc")) = 1
    /\ Request[4] = "repeat"
    /\ Len(rpc) = 1

----------------------------------------------------------------------------
(* C21: environment isolation: after any sequence of put, get and delete   *)
(* operations, an object that lies in the partition of an environment A is *)
(* not returned by a get scoped to another partition B and is not listed   *)
(* by the keys() of B.                                                     *)
C21_PartitionsIsolated ==
    \A A \in Partitions : \A B \in Partitions \ {A} : \A k \in env_keys(object_store, A) :
        /\ k \notin env_keys(object_store, B)
        /\ env_get(object_store, B, k) = None

(* A key that lay in env1 was put again under env2, both partitions alive. *)
C21_Witness ==
    /\ reglast.op = "put"
    /\ reglast.env = "env2"
    /\ reglast.key \in WasIn("env1")
    /\ "env1" \in Partitions
    /\ env_keys(object_store, "env1") # {}
    /\ env_get(object_store, "env2", reglast.key) = Some(reglast.value)

NotFound == [raised |-> "none", ret |-> None]
Found(v) == [raised |-> "none", ret |-> Some(v)]

(* C22: after delete(env_name) of a registered environment, get(env_name)  *)
(* and get(k), for every key k that was stored in that environment's       *)
(* partition, return the not-found value and do not raise.                 *)
C22_DeletedEnvNotFound ==
    (reglast.op = "delete" /\ reglast.key \in DOMAIN reglast.pre) =>
        /\ Get(reglast.key) = NotFound
        /\ \A k \in WasIn(reglast.key) : Get(k) = NotFound

(* env2 was deleted while it held its own resource and an object. *)
C22_Witness ==
    /\ reglast.op = "delete"
    /\ reglast.key = "env2"
    /\ {"env2", "k2"} \subseteq WasIn("env2")
    /\ Get("k2") = NotFound

(* C23: deleting one environment, or an environment resource that was      *)
(* stored in another environment's partition, leaves every other           *)
(* environment registered and every other object retrievable with its      *)
(* value; the environments share the working directory "./".               *)
C23_DeleteLeavesOthers ==
    reglast.op = "delete" =>
        \A e \in DOMAIN reglast.pre \ {reglast.key} :
            /\ e \in Partitions
            /\ e \in DOMAIN servlets
            /\ \A k \in DOMAIN reglast.pre[e] \ {reglast.key} :
                   /\ Get(k) = Found(reglast.pre[e][k].value)
                   /\ env_get(object_store, e, k) = Some(reglast.pre[e][k].value)

(* env3, stored in the partition of env1 next to k1, was deleted while     *)
(* env2 was registered too.                                                *)
C23_Witness ==
    /\ reglast.op = "delete"
    /\ reglast.key = StoredEnv
    /\ {StoredEnv, "k1", "env1"} \subseteq WasIn("env1")
    /\ "env2" \in Partitions
    /\ Get("env1") = Found(EnvResource("env1"))
    /\ Get("k1").ret # None
    /\ EnvResource("env1").working_dir = EnvResource(StoredEnv).working_dir

(* The operation that was just taken puts k, deletes k, or deletes the     *)
(* environment whose partition held k.                                     *)
Touches(op, k) ==
    \/ op.op \in {"put", "put_resource", "to"} /\ op.key = k
    \/ op.op = "delete" /\ op.key = k
    \/ op.op = "delete" /\ op.key \in DOMAIN op.pre /\ k \in DOMAIN op.pre[op.key]

(* C24: after put(k, v, env) for a registered environment, keys() contains *)
(* k and get(k) returns v, and both stay so through every operation that   *)
(* neither puts k again nor deletes k or its environment.                  *)
C24_PutThenGet ==
    [][/\ reglast'.op = "put" =>
            /\ reglast'.key \in cluster_keys(object_store')
            /\ cluster_get(object_store', reglast'.key) = Found(reglast'.value)
       /\ \A k \in cluster_keys(object_store) :
            ~Touches(reglast', k) =>
                /\ k \in cluster_keys(object_store')
                /\ cluster_get(object_store', k) = cluster_get(object_store, k)]_vars

(* k1 was put under env1 with "v1" and is still returned after another key *)
(* was deleted.                                                            *)
C24_Witness ==
    /\ reglast.op = "delete"
    /\ reglast.key = "k2"
    /\ "k1" \in env_keys(object_store, "env1")
    /\ "k1" \in cluster_keys(object_store)
    /\ Get("k1") = Found(StrValue("v1"))

C26_MappingKeysAreProcesses ==
    DOMAIN Status.env_resource_mapping = DOMAIN Status.env_servlet_processes

(* env2 had a partition and a process and was deleted; env1 keeps both. *)
C26_Witness ==
    /\ reglast.op = "delete"
    /\ reglast.key = "env2"
    /\ "env2" \in DOMAIN reglast.pre
    /\ "env2" \in DOMAIN reglast.procs
    /\ {base_env, "env1"} = DOMAIN Status.env_servlet_processes

(* The entries of a status() snapshot that name k, by environment. *)
EntriesOf(k) ==
    [e \in DOMAIN Status.env_resource_mapping |->
        {x \in Status.env_resource_mapping[e] : x.name = k}]

(* C27: after put(k, v, env=E) on a registered E, status() lists under     *)
(* env_resource_mapping[E] one entry for k with the resource-type tag of v *)
(* and the handles of the calls in flight on it (none when no call runs),  *)
(* and lists k under no other environment; this holds of every stored key  *)
(* in every later snapshot.                                                *)
C27_StatusListsObject ==
    /\ \A E \in Partitions : \A k \in env_keys(object_store, E) :
          /\ EntriesOf(k)[E] =
                {[name |-> k, resource_type |-> resource_type(object_store[E][k].value),
                  active_function_calls |-> object_store[E][k].active_function_calls]}
          /\ \A B \in DOMAIN EntriesOf(k) \ {E} : EntriesOf(k)[B] = {}
    /\ reglast.op \in {"put", "return"} =>
          \A e \in DOMAIN EntriesOf(reglast.key) :
              \A x \in EntriesOf(reglast.key)[e] : x.active_function_calls = <<>>
    /\ reglast.op = "put" =>
          EntriesOf(reglast.key)[reglast.env] =
              {[name |-> reglast.key, resource_type |-> "str", active_function_calls |-> <<>>]}
    /\ reglast.op = "call" =>
          \E e \in DOMAIN EntriesOf(reglast.key) :
              \E x \in EntriesOf(reglast.key)[e] : x.active_function_calls # <<>>

(* k1 was put under env1 and then under env2: status lists it under env2. *)
C27_Witness ==
    /\ reglast.op = "put"
    /\ reglast.key = "k1"
    /\ reglast.env = "env2"
    /\ "k1" \in WasIn("env1")
    /\ "env1" \in Partitions
    /\ [name |-> "k1", resource_type |-> "str", active_function_calls |-> <<>>]
           \in Status.env_resource_mapping["env2"]

----------------------------------------------------------------------------
(* The hash of the Env that call i installed on the node. *)
HashOf(i) == InstallHash(NodeEnvOf(i))
Forced(i) == RanInstall(i) /\ hist[i].inp.force /\ HashOf(i) \in Keys(hist[i].pre)

C29_ForceReinstalls ==
    \A i \in Calls :
        Forced(i) =>
            /\ HashOf(i) \in Keys(hist[i].post)
            /\ IsPrefix(Xs(OfKind(hist[i].events, "pkg")), WantedPkgs(NodeEnvOf(i)))
            /\ Xs(OfKind(hist[i].events, "pkg")) # <<>> \/ WantedPkgs(NodeEnvOf(i)) = <<>>
            /\ hist[i].raised = "none" =>
                  /\ Xs(OfKind(hist[i].events, "pkg")) = WantedPkgs(NodeEnvOf(i))
                  /\ Xs(OfKind(hist[i].events, "cmd")) = WantedCmds(NodeEnvOf(i))

(* A forced install of a cached hash ran its installers and its commands. *)
C29_Witness ==
    \E i \in Calls :
        /\ Forced(i)
        /\ hist[i].raised = "none"
        /\ WantedPkgs(NodeEnvOf(i)) # <<>>
        /\ WantedCmds(NodeEnvOf(i)) # <<>>
        /\ Xs(OfKind(hist[i].events, "pkg")) = WantedPkgs(NodeEnvOf(i))
        /\ Xs(OfKind(hist[i].events, "cmd")) = WantedCmds(NodeEnvOf(i))

(* C30: whenever install(force=False) returns through the already-         *)
(* installed path, an install() of that content hash has run all its       *)
(* package installs and setup commands to the end on this node, also when  *)
(* another install() of the hash is still in progress in a concurrent      *)
(* call.                                                                   *)
C30_CachedMeansInstalled ==
    \A t \in Threads :
        thr[t].pc = "cached" => InstallHash(SelfOf(t)) \in completed

----------------------------------------------------------------------------
(* C31: when to() is called with a node index that is out of range, the    *)
(* error is raised before any effect on the target: nothing was uploaded   *)
(* or rebased onto it, nothing registered, no environment variable set, no *)
(* install triggered and no secret migrated.                               *)
C31_NodeIdxErrorNoEffect ==
    \A i \in Calls :
        (hist[i].op = "to" /\ hist[i].raised = NodeIdxError) =>
            /\ hist[i].events = <<>>
            /\ hist[i].regpost = hist[i].regpre
            /\ hist[i].post = hist[i].pre

(* What the node installs for an anonymous Env e: its own requirements and *)
(* commands, or the default Env's where e has none (env.py:142, 158).      *)
EffectivePkgs(e) == IF WantedPkgs(e) # <<>> THEN WantedPkgs(e) ELSE WantedPkgs(DefaultEnv)
EffectiveCmds(e) == IF WantedCmds(e) # <<>> THEN WantedCmds(e) ELSE WantedCmds(DefaultEnv)
PkgsOf(i) == Xs(OfKind(hist[i].events, "pkg"))
CmdsOf(i) == Xs(OfKind(hist[i].events, "cmd"))

(* C32: to() of an anonymous Environment bypasses the install cache in     *)
(* both directions: it adds nothing to installed_envs, and whatever        *)
(* installed_envs holds and whatever force_install is, it invokes the      *)
(* installers and the setup commands again, so that two such calls of one  *)
(* Environment invoke the same.                                            *)
C32_AnonymousBypassesCache ==
    \A i \in Calls :
        AnonymousTo(i) =>
            /\ hist[i].post = hist[i].pre
            /\ PkgsOf(i) # <<>>
            /\ IsPrefix(PkgsOf(i), EffectivePkgs(envs[hist[i].self]))
            /\ hist[i].raised = "none" =>
                  /\ PkgsOf(i) = EffectivePkgs(envs[hist[i].self])
                  /\ CmdsOf(i) = EffectiveCmds(envs[hist[i].self])
            /\ \A j \in Calls :
                  (/\ AnonymousTo(j)
                   /\ hist[j].self = hist[i].self
                   /\ hist[j].inp.failing = hist[i].inp.failing)
                  => PkgsOf(j) = PkgsOf(i) /\ CmdsOf(j) = CmdsOf(i)

(* The same anonymous Env was sent twice, without and with force_install,  *)
(* and both calls ran the installers and the commands.                     *)
C32_Witness ==
    /\ Len(hist) = 2
    /\ AnonymousTo(1) /\ AnonymousTo(2)
    /\ hist[1].self = hist[2].self
    /\ hist[1].inp.force # hist[2].inp.force
    /\ hist[1].raised = "none" /\ hist[2].raised = "none"
    /\ PkgsOf(2) # <<>> /\ CmdsOf(2) # <<>>
    /\ PkgsOf(2) = PkgsOf(1)

(* The calls of to() that returned a copy, and the copy. *)
Returned(i) == hist[i].op = "to" /\ hist[i].ret # None
CopyOf(i) == hist[i].ret[1]

(* new is old as it came, or old as a package rebased onto the system. *)
ImageOf(new, old, system) ==
    IF old.folder /\ old.form \in {"str", "pkg"}
    THEN new = [old EXCEPT !.form = "pkg", !.loc = system]
    ELSE new = old

(* C33: the copy returned by to() has a reqs sequence as long as E.reqs    *)
(* and in its order, each element the image (rebased or not) of the        *)
(* corresponding element of E.reqs; the working directory is still last    *)
(* and is held in working_dir, not among the declared requirements.        *)
C33_ReqsImage ==
    \A i \in Calls :
        Returned(i) =>
            /\ Len(reqs(CopyOf(i))) = Len(hist[i].before.reqs)
            /\ \A k \in 1..Len(hist[i].before.reqs) :
                  ImageOf(reqs(CopyOf(i))[k], hist[i].before.reqs[k], hist[i].inp.system)
            /\ (CopyOf(i).working_dir # None) <=> (hist[i].before.working_dir # None)
            /\ CopyOf(i).working_dir # None =>
                  /\ reqs(CopyOf(i))[Len(reqs(CopyOf(i)))] = CopyOf(i).working_dir[1]
                  /\ CopyOf(i).working_dir[1].id = hist[i].before.working_dir[1].id
                  /\ Len(CopyOf(i)._reqs) = Len(hist[i].before.reqs) - 1
                  /\ \A k \in 1..Len(CopyOf(i)._reqs) :
                        CopyOf(i)._reqs[k].id # CopyOf(i).working_dir[1].id

(* An Env with a folder package and a working directory was sent and came  *)
(* back with both rebased.                                                 *)
C33_Witness ==
    \E i \in Calls :
        /\ Returned(i)
        /\ hist[i].before.working_dir # None
        /\ \E k \in 1..Len(CopyOf(i)._reqs) :
              /\ CopyOf(i)._reqs[k].folder
              /\ CopyOf(i)._reqs[k] # hist[i].before.reqs[k]
        /\ CopyOf(i).working_dir[1].loc = hist[i].inp.system

ToFileSystem(i) == hist[i].op = "to" /\ hist[i].inp.system # "cluster"

(* C34: to() with a target that is not a cluster only rebases the          *)
(* requirements and the working directory onto it: it returns the copy,    *)
(* registers nothing, sets no environment variable, triggers no install,   *)
(* migrates no secret and records no node index, even when one is given.   *)
C34_FileSystemOnlyRebases ==
    \A i \in Calls :
        ToFileSystem(i) =>
            /\ hist[i].raised = "none"
            /\ Returned(i)
            /\ \A k \in 1..Len(hist[i].events) : hist[i].events[k].t = "upload"
            /\ hist[i].regpost = hist[i].regpre
            /\ hist[i].post = hist[i].pre
            /\ hist[i].onnode = None
            /\ CopyOf(i).compute = hist[i].before.compute
            /\ CopyOf(i).secrets = hist[i].before.secrets
            /\ CopyOf(i).name = envs[hist[i].self].name

(* An Env with environment variables, secrets and a folder requirement was *)
(* sent to a file system with a node index.                                *)
C34_Witness ==
    \E i \in Calls :
        /\ ToFileSystem(i)
        /\ hist[i].inp.node_idx # None
        /\ hist[i].events # <<>>
        /\ hist[i].before.secrets # <<>>
        /\ _process_env_vars(envs[hist[i].self].env_vars) # {}
        /\ envs[hist[i].self].name # NoName
        /\ CopyOf(i).working_dir[1].loc = "fs"

----------------------------------------------------------------------------
(* C39: a Send with proxy access that rejects repeat, map, starmap,        *)
(* enqueue, remote or get does so before any side effect: the local        *)
(* runtime is not initialised, nothing is sent, and the Send is unchanged. *)
C39_RejectsBeforeEffects ==
    (Called /\ Me.access = Proxy /\ last.op \in GatedOps) =>
        /\ last.raised # None
        /\ last.events = <<>>
        /\ sends = Sends0

----------------------------------------------------------------------------
(* C35: a Send built by the send() factory from a stored configuration has *)
(* the access level of the configuration's access_level (write when there  *)
(* is none), and a configuration with access_level proxy installs no       *)
(* packages on the hardware.                                               *)
C35_AccessFromConfig ==
    \A i \in Builds_ :
        (built[i].op = "send" /\ Made(i)) =>
            /\ SendOf(i).access = IF built[i].stored.access_level = None THEN Write
                                  ELSE built[i].stored.access_level[1]
            /\ built[i].stored.access_level = Some(Proxy)
                  => OfKind(built[i].events, "install_packages") = <<>>

(* C36: after any sequence of send() constructions from functions defined  *)
(* interactively, the module that each constructed Send points at holds    *)
(* that Send's own function: a later construction, named or not, does not  *)
(* overwrite the module of an earlier one.                                 *)
C36_OwnSyntheticModule ==
    \A i \in Builds_ :
        (FromNotebook(i) /\ Made(i)) =>
            /\ built[i].written # None
            /\ SendOf(i).fn_pointers[2] = built[i].written[1][1]
            /\ built[i].written[1] \in Keys(cwd_files)
            /\ DictGet(cwd_files, built[i].written[1]) = built[i].fn.src

(* C37: constructing a Send with dryrun false and write or read access     *)
(* asks the hardware whether it is up, brings it up first when it is not,  *)
(* and only then installs the requirements on it; constructing with dryrun *)
(* true or with proxy access does nothing on the hardware.                 *)
C37_SetUpOrder ==
    \A i \in Builds_ :
        Made(i) =>
            IF ~built[i].dryrun /\ SendOf(i).access \in {Write, Read}
            THEN /\ built[i].ctor =
                       <<Did("is_up", <<>>)>>
                           \o (IF built[i].up THEN <<>> ELSE <<Did("up", <<>>)>>)
                           \o <<Did("install_packages", SendOf(i).reqs)>>
                 /\ hw_up
            ELSE /\ built[i].ctor = <<>>
                 /\ built[i].op = "init" => built[i].events = <<>>

(* A Send with read access was constructed on hardware that was down, and  *)
(* one with proxy access without dryrun.                                   *)
C37_Witness ==
    /\ Len(built) = 2
    /\ built[1].op = "init" /\ ~built[1].dryrun /\ ~built[1].up
    /\ SendOf(1).access = Read
    /\ Len(built[1].ctor) = 3
    /\ built[2].op = "init" /\ ~built[2].dryrun
    /\ SendOf(2).access = Proxy
    /\ built[2].ctor = <<>>

----------------------------------------------------------------------------
(* SpecCmd: calls of run_setup_command, one after the other, against a     *)
(* process whose outcome is chosen freely.                                 *)

MaxCmds == 2         \* calls of run_setup_command in one behaviour of SpecCmd

Cmds == {<<"conda", "--version">>, <<"pip", "install", "numpy">>}
Clusters == {NoCluster, Cluster(TRUE, <<>>), Cluster(TRUE, CondaPrefix),
             Cluster(FALSE, <<>>), Cluster(FALSE, CondaPrefix)}
Procs == {Proc(0, "ok", ""), Proc(1, "", "not found")}
EnvVars == {{}, {<<"TOKEN", "t">>}}

InitCmd ==
    /\ envs = [r \in Clients \cup {NewRef} |->
                 IF r = 1 THEN NewEnv(1, "a", ContentA)
                 ELSE IF r = 2 THEN NewEnv(2, "b", ContentA)
                 ELSE NewEnv(3, NoName, ContentC)]
    /\ dicts = [d \in DictRefs |-> IF d = DefaultDict \/ d = NewDict THEN {} ELSE {<<"gpus", 1>>}]
    /\ installed_envs = {}
    /\ registry = {<<DefaultEnv.name, DefaultEnv>>}
    /\ environ = {}
    /\ hist = <<>>
    /\ thr = [t \in Threads |-> Idle]
    /\ completed = {}
    /\ NoSendCalls
    /\ token = None
    /\ NoRegOps
    /\ NoSendsBuilt
    /\ hw_up = FALSE
    /\ NoCmds

(* run_setup_command(cmd, cluster=cluster, env_vars=env_vars, stream_logs=stream_logs) *)
RunSetup(cmd, cluster, env_vars, stream_logs, p) ==
    /\ cmdlast.n < MaxCmds
    /\ LET r == run_setup_command(cmd, cluster, env_vars, stream_logs, p)
       IN  /\ shell' = shell \o r.popen
           /\ ssh' = ssh \o r.sent
           /\ cmdlast' = [n |-> cmdlast.n + 1, cmd |-> cmd, cluster |-> cluster,
                          stream_logs |-> stream_logs, env_vars |-> env_vars,
                          result |-> r.result]
    /\ UNCHANGED envvars
    /\ UNCHANGED sendvars
    /\ UNCHANGED storevars
    /\ UNCHANGED makevars

NextCmd ==
    \E cmd \in Cmds, cluster \in Clusters, env_vars \in EnvVars,
       stream_logs \in BOOLEAN, p \in Procs :
        RunSetup(cmd, cluster, env_vars, stream_logs, p)

SpecCmd == InitCmd /\ [][NextCmd]_vars

(* Whether the latest call had to run where the caller is. *)
RanLocally == cmdlast.cluster = NoCluster \/ cmdlast.cluster[1].on_this_cluster

C40_ReturnsPair ==
    cmdlast.n > 0 => Len(cmdlast.result) = 2

====
